---- MODULE Spec2Model ----
(***************************************************************************)
(* Kademlia routing table of kademlia.py: ID, Contact, KBucket and         *)
(* BucketList.  The ID width B and the bucket capacity K are scaled down   *)
(* from 160 and 20; every operator is computed as the Python code          *)
(* computes it.                                                            *)
(***************************************************************************)
EXTENDS Integers, Sequences, FiniteSets, TLC

\* ------------------------------------------------------------------------
\* Constants.K / Constants.B, scaled, and the bound on the number of calls.
K == 2
B == 3
MaxOps == 5
\* Constants.A, scaled: the number of contacts one lookup round queries.
A == 1
\* Peers that show up have the ids 0 .. NumPeers - 1 (all of them valid IDs).
NumPeers == 7

\* ID.MAX_ID = 2**B, ID.MIN_ID = 0: a valid ID v has MIN_ID <= v < MAX_ID.
RECURSIVE Pow2(_)
Pow2(n) == IF n = 0 THEN 1 ELSE 2 * Pow2(n - 1)

MAX_ID == Pow2(B)
MIN_ID == 0
IDs == MIN_ID .. (MAX_ID - 1)
PeerIds == {i \in IDs : i < NumPeers}

\* ID.min() and ID.mid(): the identities a node is constructed with here.
IDmin == 0
IDmid == Pow2(B - 1)

VARIABLES
    buckets,   \* BucketList.buckets: sequence of KBucket
    our_id,    \* BucketList.our_id
    now,       \* the clock datetime.now() reads; advances with every read
    ops,       \* number of BucketList.add_contact calls made so far
    last,      \* what the last BucketList.add_contact call did
    kb,        \* a free-standing KBucket
    kids,      \* result of the last kb.split(): <<>> or <<k1, k2>>
    storage,              \* Node._storage: the dict of a VirtualStorage
    cache_storage,        \* Node.cache_storage: None or a VirtualStorage
    nlast,                \* what the last inbound RPC of the Node did
    closer_contacts,      \* Router.closer_contacts
    further_contacts,     \* Router.further_contacts
    rlast,                \* what the last Router.lookup call did
    originator_storage,   \* DHT._originator_storage
    dlast,                \* what the last DHT.store / DHT.find_value did
    dht_args,             \* storage_factory and router given to DHT.__init__
    peers,                \* bucket list of the Node of every other peer
    boot,                 \* what DHT.bootstrap / DHT._refresh_bucket did
    capacity,             \* Constants.K of the run
    xlast,                \* operands and results of the last ID.__xor__ calls
    frames,               \* the add_contact frame of every handler thread
    conc                  \* what the concurrent add_contact calls started from
                          \* and observed

nodeVars == <<storage, cache_storage, nlast>>
routerVars == <<closer_contacts, further_contacts, rlast>>
dhtVars == <<originator_storage, dlast, dht_args>>
netVars == <<peers, boot>>
idVars == <<capacity, xlast>>
concVars == <<frames, conc>>

vars == <<buckets, our_id, now, ops, last, kb, kids,
          storage, cache_storage, nlast, closer_contacts, further_contacts,
          rlast, originator_storage, dlast, dht_args, peers, boot,
          capacity, xlast, frames, conc>>

\* ------------------------------------------------------------------------
\* Contact and KBucket.

\* Contact(id) after touch() at time t.
Contact(id, t) == [id |-> id, last_seen |-> t]

\* KBucket.__init__(low, high) with no initial contacts.
KBucket(low, high) == [low |-> low, high |-> high, contacts |-> <<>>]

\* Variant of is_full with the comparison off by one.
IsFullOffByOne(b) == Len(b.contacts) > K

\* KBucket.is_full: len(contacts) >= K.
IsFull(b) == Len(b.contacts) >= K

\* KBucket.contains: any(id == contact.id ...).
Contains(b, id) == \E i \in 1..Len(b.contacts) : b.contacts[i].id = id

\* KBucket.is_in_range: low <= id <= high (both ends included).
IsInRange(b, id) == b.low <= id /\ id <= b.high

\* KBucket.add_contact: raises when full, raises when out of range, else
\* appends.  err names the exception raised ("none" when it returns).
KBucketAddContact(b, c) ==
    IF IsFull(b)
    THEN [b |-> b, err |-> "TooManyContactsError"]
    ELSE IF ~IsInRange(b, c.id)
         THEN [b |-> b, err |-> "OutOfRangeError"]
         ELSE [b |-> [b EXCEPT !.contacts = Append(@, c)], err |-> "none"]

\* ID.bin(): binary digits, most significant first, no "0b", "0" for 0.
RECURSIVE Bin(_)
Bin(v) == IF v < 2 THEN <<v>> ELSE Bin(v \div 2) \o <<v % 2>>

\* Python slice s[2:].
Drop2(s) == SubSeq(s, 3, Len(s))

\* longest_shared_prefix_str(a, b) inside KBucket.shared_bits.
RECURSIVE PrefixFrom(_, _, _)
PrefixFrom(a, b, i) ==
    IF i > Len(b) THEN b
    ELSE IF a[i] # b[i] THEN SubSeq(a, 1, i - 1)
    ELSE PrefixFrom(a, b, i + 1)

LongestSharedPrefix(a, b) ==
    IF Len(a) < Len(b) THEN PrefixFrom(b, a, 1) ELSE PrefixFrom(a, b, 1)

\* KBucket.shared_bits: fold of longest_shared_prefix_str over
\* contact.id.bin()[2:], starting from the first contact.
RECURSIVE SharedFrom(_, _, _)
SharedFrom(cs, i, prefix) ==
    IF i > Len(cs) THEN prefix
    ELSE SharedFrom(cs, i + 1,
                    LongestSharedPrefix(Drop2(Bin(cs[i].id)), prefix))

SharedBits(b) == SharedFrom(b.contacts, 2, Drop2(Bin(b.contacts[1].id)))

\* KBucket.depth.
Depth(b) == Len(SharedBits(b))

\* sorted(list of ints), by insertion.
RECURSIVE InsertAsc(_, _)
InsertAsc(s, x) ==
    IF s = <<>> THEN <<x>>
    ELSE IF x < Head(s) THEN <<x>> \o s
    ELSE <<Head(s)>> \o InsertAsc(Tail(s), x)

RECURSIVE SortAsc(_)
SortAsc(s) == IF s = <<>> THEN <<>> ELSE InsertAsc(SortAsc(Tail(s)), Head(s))

\* statistics.median_low of a sorted list: data[(n - 1) // 2] (0-based).
MedianLow(sorted) == sorted[((Len(sorted) - 1) \div 2) + 1]

\* statistics.median_high of a sorted list: data[n // 2] (0-based).
MedianHigh(sorted) == sorted[(Len(sorted) \div 2) + 1]

\* The loop of KBucket.split over self.contacts from position i on:
\* c.id < midpoint goes to k1, else to k2, each through add_contact.
RECURSIVE SplitLoop(_, _, _, _, _)
SplitLoop(cs, i, midpoint, k1, k2) ==
    IF i > Len(cs) THEN [k1 |-> k1, k2 |-> k2, err |-> "none"]
    ELSE IF cs[i].id < midpoint
         THEN LET r == KBucketAddContact(k1, cs[i])
              IN  IF r.err # "none" THEN [k1 |-> k1, k2 |-> k2, err |-> r.err]
                  ELSE SplitLoop(cs, i + 1, midpoint, r.b, k2)
         ELSE LET r == KBucketAddContact(k2, cs[i])
              IN  IF r.err # "none" THEN [k1 |-> k1, k2 |-> k2, err |-> r.err]
                  ELSE SplitLoop(cs, i + 1, midpoint, k1, r.b)

\* The midpoint KBucket.split uses: the high median of the contact ids.
Midpoint(b) == MedianHigh(SortAsc([i \in 1..Len(b.contacts) |-> b.contacts[i].id]))

\* Variant of split whose children do not meet: k1 ends at midpoint - 1.
SplitGap(b) ==
    LET m == Midpoint(b)
    IN  SplitLoop(b.contacts, 1, m, KBucket(b.low, m - 1), KBucket(m, b.high))

\* Variant of split that takes the low median as midpoint.
SplitMedianLow(b) ==
    LET m == MedianLow(SortAsc([i \in 1..Len(b.contacts) |-> b.contacts[i].id]))
    IN  SplitLoop(b.contacts, 1, m, KBucket(b.low, m), KBucket(m, b.high))

\* Variant of split that does not carry the median contact over.
SplitLosesMedian(b) ==
    LET m == Midpoint(b)
        r == SplitLoop(b.contacts, 1, m, KBucket(b.low, m), KBucket(m, b.high))
        keep == SelectSeq(r.k2.contacts, LAMBDA c : c.id # m)
    IN  [r EXCEPT !.k2.contacts = keep]

\* KBucket.split: k1 = KBucket(low, midpoint), k2 = KBucket(midpoint, high).
\* median_high of no data raises StatisticsError.
Split(b) ==
    IF b.contacts = <<>>
    THEN [k1 |-> b, k2 |-> b, err |-> "StatisticsError"]
    ELSE LET m == Midpoint(b)
         IN  SplitLoop(b.contacts, 1, m, KBucket(b.low, m), KBucket(m, b.high))

\* KBucket.replace_contact: overwrite the first entry with the same id by
\* the new contact, then touch it (last_seen = t).
ReplaceContact(b, id, t) ==
    LET index == CHOOSE i \in 1..Len(b.contacts) :
                    /\ b.contacts[i].id = id
                    /\ \A j \in 1..(i - 1) : b.contacts[j].id # id
    IN  [b EXCEPT !.contacts[index] = Contact(id, t)]


\* ------------------------------------------------------------------------
\* BucketList.

\* Variant of _get_kbucket_index that always answers the first bucket.
GetKBucketIndexFirst(bl, id) == 0

\* BucketList._get_kbucket_index: 0-based index of the first bucket that
\* has the id in range, -1 when there is none.
GetKBucketIndex(bl, id) ==
    IF \E i \in 1..Len(bl) : IsInRange(bl[i], id)
    THEN (CHOOSE i \in 1..Len(bl) :
             /\ IsInRange(bl[i], id)
             /\ \A j \in 1..(i - 1) : ~IsInRange(bl[j], id)) - 1
    ELSE -1

\* Python list indexing self.buckets[index]: -1 is the last element.
\* The result is the 1-based position in the sequence.
Pos(bl, index) == IF index < 0 THEN Len(bl) + index + 1 ELSE index + 1

\* BucketList.get_kbucket.
GetKBucket(bl, id) == bl[Pos(bl, GetKBucketIndex(bl, id))]

\* BucketList.can_split: in range of our id, or depth() % B != 0.
CanSplit(b, me) == IsInRange(b, me) \/ (Depth(b) % B # 0)

\* self.buckets[index] = k1; self.buckets.insert(index + 1, k2).
InstallSplit(bl, index, k1, k2) ==
    LET p  == Pos(bl, index)
        r  == [bl EXCEPT ![p] = k1]
        at == index + 1      \* list.insert position, 0-based
    IN  SubSeq(r, 1, at) \o <<k2>> \o SubSeq(r, at + 1, Len(r))

\* sorted(kbucket.contacts, key=lambda c: c.last_seen)[0]: the sort is
\* stable, so it is the first contact with the smallest last_seen.
LastSeenContact(b) ==
    LET i == CHOOSE i \in 1..Len(b.contacts) :
                /\ \A j \in 1..Len(b.contacts) :
                       b.contacts[i].last_seen <= b.contacts[j].last_seen
                /\ \A j \in 1..(i - 1) :
                       b.contacts[j].last_seen # b.contacts[i].last_seen
    IN  b.contacts[i]

\* BucketList.contacts(): flat enumeration of the buckets.
RECURSIVE Contacts(_)
Contacts(bl) == IF bl = <<>> THEN <<>> ELSE Head(bl).contacts \o Contacts(Tail(bl))

\* Variant of the guard that lets every id through.
IsOurNodeNever(me, id) == FALSE

\* The guard of BucketList.add_contact: self.our_id == contact.id.
IsOurNode(me, id) == me = id

\* BucketList.add_contact(contact) on bucket list bl at clock t, with the
\* recursion of the split branch.  Result: the bucket list and clock after
\* the call, the exception raised ("none" when the call returns), the branch
\* the innermost call took, the number of splits, the contact chosen as
\* least recently seen, whether a PING was sent, and the DHT method called.
\*   - our_id == contact.id raises before anything is touched;
\*   - contact.touch() reads the clock;
\*   - the not-splittable branch evaluates the name our_contact, which is
\*     bound nowhere in the function or the module: NameError is raised
\*     before ping() is entered, so neither DHT.delay_eviction nor
\*     DHT.add_to_pending is reached.
RECURSIVE AddContactRec(_, _, _, _, _)
AddContactRec(bl, me, id, t, splits) ==
    IF IsOurNode(me, id)
    THEN [buckets |-> bl, now |-> t, err |-> "OurNodeCannotBeAContactError",
          branch |-> "self", splits |-> splits, stale |-> -1,
          ping_sent |-> FALSE, dht_call |-> "none"]
    ELSE
    LET index   == GetKBucketIndex(bl, id)
        p       == Pos(bl, index)
        kbucket == bl[p]
    IN  IF Contains(kbucket, id)
        THEN [buckets |-> [bl EXCEPT ![p] = ReplaceContact(kbucket, id, t + 1)],
              now |-> t + 2, err |-> "none", branch |-> "replace",
              splits |-> splits, stale |-> -1, ping_sent |-> FALSE,
              dht_call |-> "none"]
        ELSE IF IsFull(kbucket)
        THEN IF CanSplit(kbucket, me)
             THEN LET s == Split(kbucket)
                  IN  IF s.err # "none"
                      THEN [buckets |-> bl, now |-> t + 1, err |-> s.err,
                            branch |-> "split", splits |-> splits,
                            stale |-> -1, ping_sent |-> FALSE,
                            dht_call |-> "none"]
                      ELSE AddContactRec(InstallSplit(bl, index, s.k1, s.k2),
                                         me, id, t + 1, splits + 1)
             ELSE [buckets |-> bl, now |-> t + 1, err |-> "NameError",
                   branch |-> "evict", splits |-> splits,
                   stale |-> LastSeenContact(kbucket).id,
                   ping_sent |-> FALSE, dht_call |-> "none"]
        ELSE LET r == KBucketAddContact(kbucket, Contact(id, t))
             IN  [buckets |-> [bl EXCEPT ![p] = r.b], now |-> t + 1,
                  err |-> r.err, branch |-> "append", splits |-> splits,
                  stale |-> -1, ping_sent |-> FALSE, dht_call |-> "none"]

\* ------------------------------------------------------------------------
\* XOR metric and BucketList.get_close_contacts.

\* Variant that combines the bits with or instead of exclusive or.
RECURSIVE XorAsOr(_, _)
XorAsOr(a, b) ==
    IF a = 0 /\ b = 0 THEN 0
    ELSE (IF (a % 2) + (b % 2) > 0 THEN 1 ELSE 0)
         + (2 * XorAsOr(a \div 2, b \div 2))

\* ID.__xor__: the bitwise exclusive or of the two values.
RECURSIVE Xor(_, _)
Xor(a, b) ==
    IF a = 0 /\ b = 0 THEN 0
    ELSE (((a % 2) + (b % 2)) % 2) + (2 * Xor(a \div 2, b \div 2))

\* No ID.__xor__ call made yet.
NoXor ==
    [op |-> "init", a |-> 0, b |-> 0, c |-> 0, ab |-> 0, ba |-> 0, aa |-> 0,
     bc |-> 0, ac |-> 0]

\* The parts of the state a specification does not use stay as
\* constructed: the bucket capacity is Constants.K.
IdIdle ==
    /\ capacity = K
    /\ xlast = NoXor

\* The threads that serve inbound RPCs of one Node; each ends in
\* bucket_list.add_contact(sender).
Handlers == {1, 2}

\* The frame of a thread that is not in add_contact.
NoFrame ==
    [pc |-> "idle", id |-> -1, t |-> 0, kb_pos |-> 0, kb_obj |-> KBucket(0, 0),
     k1 |-> KBucket(0, 0), k2 |-> KBucket(0, 0), index |-> 0, splits |-> 0,
     err |-> "none"]

NoConc == [seed |-> <<>>, half_seen |-> FALSE]

\* No thread has been started.
ConcIdle ==
    /\ frames = [th \in Handlers |-> NoFrame]
    /\ conc = NoConc

\* sorted(contacts, key=lambda c: c.id ^ key): the sort is stable, a
\* contact goes behind every earlier contact at the same or a smaller
\* distance.
RECURSIVE SortedByDistance(_, _)
SortedByDistance(cs, key) ==
    IF cs = <<>> THEN <<>>
    ELSE LET n  == Len(cs)
             x  == cs[n]
             f  == SortedByDistance(SubSeq(cs, 1, n - 1), key)
             at == Cardinality({i \in 1..Len(f) :
                                    Xor(f[i].id, key) <= Xor(x.id, key)})
         IN  SubSeq(f, 1, at) \o <<x>> \o SubSeq(f, at + 1, Len(f))

\* The slice s[:n].
Take(s, n) == SubSeq(s, 1, IF Len(s) < n THEN Len(s) ELSE n)

\* Variant of get_close_contacts that keeps the contacts in bucket order.
GetCloseContactsUnsorted(bl, key, exclude) ==
    Take(SelectSeq(Contacts(bl), LAMBDA c : c.id # exclude), K)

\* BucketList.get_close_contacts(key, exclude): every contact of every
\* bucket whose id differs from exclude, sorted by id ^ key, cut to K.
GetCloseContacts(bl, key, exclude) ==
    Take(SortedByDistance(SelectSeq(Contacts(bl), LAMBDA c : c.id # exclude),
                          key), K)

\* A run of add_contact calls in list order (for contact in contacts:
\* add_contact(contact)); the first exception ends it.
RECURSIVE AddAll(_, _, _, _)
AddAll(bl, me, ids, t) ==
    IF ids = <<>> THEN [buckets |-> bl, now |-> t, err |-> "none"]
    ELSE LET r == AddContactRec(bl, me, Head(ids), t, 0)
         IN  IF r.err # "none"
             THEN [buckets |-> r.buckets, now |-> r.now, err |-> r.err]
             ELSE AddAll(r.buckets, me, Tail(ids), r.now)

\* ------------------------------------------------------------------------
\* VirtualStorage: the dict _store, as a function over the key values;
\* Absent marks a key that is not in the dict.

Absent == "absent"
NoneV == "None"

\* VirtualStorage.__init__: _store = {}.
VirtualStorage == [k \in IDs |-> Absent]

\* VirtualStorage.contains: key.value in list(_store.keys()).
StorageContains(d, key) == d[key] # Absent

\* VirtualStorage.set: _store[key.value] = value.
StorageSet(d, key, value) == [d EXCEPT ![key] = value]

\* VirtualStorage.get(key): both branches test isinstance(type(key), ...),
\* and type(key) is a class, an instance of neither ID nor int: the call
\* raises TypeError for every key, stored or not.
StorageGet(d, key) == [err |-> "TypeError", value |-> NoneV]

\* Node.cache_storage: None (the default of Node.__init__) or a storage.
NoCache == [is_none |-> TRUE, store |-> VirtualStorage]
Cache(d) == [is_none |-> FALSE, store |-> d]

\* ------------------------------------------------------------------------
\* Node: the four inbound RPC handlers.  Each gives the bucket list, the
\* storages and the clock after the call, the exception raised ("none"
\* when the call returns), the pair returned (contacts_none marks a None in
\* place of the contact list), and the ids handed to
\* bucket_list.add_contact while the call ran.

NodeRet(bl, st, cs, t, err, contacts, contacts_none, value, added) ==
    [buckets |-> bl, storage |-> st, cache_storage |-> cs, now |-> t,
     err |-> err, contacts |-> contacts, contacts_none |-> contacts_none,
     value |-> value, added |-> added]

\* Node.ping: the body is pass; nothing is checked, nothing is touched.
NodePing(bl, st, cs, me, t, sender) ==
    NodeRet(bl, st, cs, t, "none", <<>>, TRUE, NoneV, <<>>)

\* Node.store(key, sender, val, is_cached): the sender check, then
\* add_contact(sender), then the write to cache_storage or _storage.
\* send_key_values_if_new_contact is pass.
NodeStore(bl, st, cs, me, t, key, sender, val, is_cached) ==
    IF sender = me
    THEN NodeRet(bl, st, cs, t, "SenderIsSelfError", <<>>, TRUE, NoneV, <<>>)
    ELSE
    LET r == AddContactRec(bl, me, sender, t, 0)
    IN  IF r.err # "none"
        THEN NodeRet(r.buckets, st, cs, r.now, r.err, <<>>, TRUE, NoneV,
                     <<sender>>)
        ELSE IF is_cached
        THEN IF cs.is_none
             THEN NodeRet(r.buckets, st, cs, r.now, "AttributeError", <<>>,
                          TRUE, NoneV, <<sender>>)
             ELSE NodeRet(r.buckets, st, Cache(StorageSet(cs.store, key, val)),
                          r.now, "none", <<>>, TRUE, NoneV, <<sender>>)
        ELSE NodeRet(r.buckets, StorageSet(st, key, val), cs, r.now, "none",
                     <<>>, TRUE, NoneV, <<sender>>)

\* Node.find_node(key, sender): the sender check, add_contact(sender), then
\* get_close_contacts(key, exclude=sender.id).
NodeFindNode(bl, st, cs, me, t, key, sender) ==
    IF sender = me
    THEN NodeRet(bl, st, cs, t, "SendingQueryToSelfError", <<>>, TRUE, NoneV,
                 <<>>)
    ELSE
    LET r == AddContactRec(bl, me, sender, t, 0)
    IN  IF r.err # "none"
        THEN NodeRet(r.buckets, st, cs, r.now, r.err, <<>>, TRUE, NoneV,
                     <<sender>>)
        ELSE NodeRet(r.buckets, st, cs, r.now, "none",
                     GetCloseContacts(r.buckets, key, sender), FALSE, NoneV,
                     <<sender>>)

\* Node.find_value(key, sender): the sender check, then _storage, then
\* cache_storage (an attribute access on None when there is none), then
\* get_close_contacts(key, sender.id).  add_contact is not called.
NodeFindValue(bl, st, cs, me, t, key, sender) ==
    IF sender = me
    THEN NodeRet(bl, st, cs, t, "SendingQueryToSelfError", <<>>, TRUE, NoneV,
                 <<>>)
    ELSE IF StorageContains(st, key)
    THEN LET g == StorageGet(st, key)
         IN  NodeRet(bl, st, cs, t, g.err, <<>>, TRUE, g.value, <<>>)
    ELSE IF cs.is_none
    THEN NodeRet(bl, st, cs, t, "AttributeError", <<>>, TRUE, NoneV, <<>>)
    ELSE IF StorageContains(cs.store, key)
    THEN LET g == StorageGet(cs.store, key)
         IN  NodeRet(bl, st, cs, t, g.err, <<>>, TRUE, g.value, <<>>)
    ELSE NodeRet(bl, st, cs, t, "none", GetCloseContacts(bl, key, sender),
                 FALSE, NoneV, <<>>)

NoRpc ==
    [op |-> "init", key |-> -1, sender |-> -1, val |-> NoneV,
     is_cached |-> FALSE, pre |-> <<>>, pre_storage |-> VirtualStorage,
     pre_cache |-> NoCache, err |-> "none", contacts |-> <<>>,
     contacts_none |-> TRUE, value |-> NoneV, added |-> <<>>]

\* The parts of the state a specification does not use stay as constructed.
NodeIdle ==
    /\ storage = VirtualStorage
    /\ cache_storage = NoCache
    /\ nlast = NoRpc

\* ------------------------------------------------------------------------
\* Router.

\* Router.query: the body is pass, the call sends nothing and returns None.
Query(key, new_nodes_to_query, rpc_call, closer, further) == NoneV

\* Router.lookup(key, rpc_call) on bucket list bl with the Router's two
\* lists as they stand (they are set in Router.__init__ only):
\*   all_nodes      = get_close_contacts(key, our id)[0:K]
\*   nodes_to_query = all_nodes[0:A], each appended to closer_contacts when
\*                    its distance to key is below ours, else to
\*                    further_contacts;
\*   all_nodes[A + 1:] is appended to further_contacts;
\*   query_result   = self.query(...), which is None;
\*   query_result["found"] subscripts None: TypeError.
\* Nothing behind that line runs.  The result holds the Router's lists
\* after the call, the exception, what was returned (returned = FALSE when
\* the call raised) and the RPCs sent.
RouterLookup(bl, me, closer, further, key, rpc_call) ==
    LET all_nodes      == Take(GetCloseContacts(bl, key, me), K)
        nodes_to_query == Take(all_nodes, A)
        closer1  == closer \o SelectSeq(nodes_to_query,
                        LAMBDA c : Xor(c.id, key) < Xor(me, key))
        further1 == further \o SelectSeq(nodes_to_query,
                        LAMBDA c : ~(Xor(c.id, key) < Xor(me, key)))
                    \o SubSeq(all_nodes, A + 2, Len(all_nodes))
        query_result == Query(key, nodes_to_query, rpc_call, closer1, further1)
    IN  IF query_result = NoneV
        THEN [closer_contacts |-> closer1, further_contacts |-> further1,
              nodes_to_query |-> nodes_to_query, err |-> "TypeError",
              returned |-> FALSE, found |-> FALSE, contacts |-> <<>>,
              val |-> NoneV, found_by |-> -1, rpcs |-> <<>>]
        ELSE [closer_contacts |-> closer1, further_contacts |-> further1,
              nodes_to_query |-> nodes_to_query, err |-> "none",
              returned |-> TRUE, found |-> query_result.found,
              contacts |-> query_result.contacts, val |-> query_result.val,
              found_by |-> query_result.found_by, rpcs |-> <<>>]

NoLookup ==
    [op |-> "init", key |-> -1, rpc_call |-> "none", pre |-> <<>>,
     pre_closer |-> <<>>, pre_further |-> <<>>, nodes_to_query |-> <<>>,
     err |-> "none", returned |-> FALSE, found |-> FALSE, contacts |-> <<>>,
     val |-> NoneV, found_by |-> -1, rpcs |-> <<>>]

\* Router.__init__: both lists empty.
RouterIdle ==
    /\ closer_contacts = <<>>
    /\ further_contacts = <<>>
    /\ rlast = NoLookup

\* ------------------------------------------------------------------------
\* DHT: store and find_value.  The DHT is constructed with a storage
\* factory and a router (dht_args): the storage is the VirtualStorage of
\* this module or another IStorage whose try_get_value answers
\* (present, value); the router is the Router of this module or another
\* object whose lookup returns a QueryReturn.

Constants_EXPIRATION_TIME_SEC == 86400

\* VirtualStorage.try_get_value: the body is pass, the call returns None,
\* and [1] on None raises TypeError.  An IStorage that keeps what set()
\* stored answers (True, value) or (False, None).
TryGetValue1(impl, d, key) ==
    IF impl = "VirtualStorage"
    THEN [err |-> "TypeError", value |-> NoneV]
    ELSE [err |-> "none",
          value |-> IF StorageContains(d, key) THEN d[key] ELSE NoneV]

\* self.get_separating_nodes_count: DHT defines no such method, the
\* attribute lookup raises.
GetSeparatingNodesCount == "AttributeError"

DHTRet(closer, further, err, found, val, lookup, stores) ==
    [closer_contacts |-> closer, further_contacts |-> further, err |-> err,
     found |-> found, val |-> val, lookup |-> lookup, stores |-> stores]

\* What a lookup that was not made leaves in the record.
NotLookedUp ==
    [called |-> FALSE, err |-> "none", found |-> FALSE, contacts |-> <<>>,
     val |-> NoneV, found_by |-> -1]

\* The part of DHT.find_value behind the lookup, l being what the lookup
\* did: a raise goes through; found = True looks for the contacts other
\* than found_by and, when there is one, is to send a cached store to the
\* nearest of them to key, after self.get_separating_nodes_count(...).
\* The contact list returned is the local contacts, None on every path.
DHTAfterLookup(l, lk, key) ==
    IF l.err # "none"
    THEN DHTRet(l.closer_contacts, l.further_contacts, l.err, FALSE, NoneV,
                lk, <<>>)
    ELSE IF ~l.found
    THEN DHTRet(l.closer_contacts, l.further_contacts, "none", FALSE, NoneV,
                lk, <<>>)
    ELSE IF SelectSeq(l.contacts, LAMBDA c : c.id # l.found_by) = <<>>
    THEN DHTRet(l.closer_contacts, l.further_contacts, "none", TRUE, l.val,
                lk, <<>>)
    ELSE IF GetSeparatingNodesCount # "none"
    THEN DHTRet(l.closer_contacts, l.further_contacts,
                GetSeparatingNodesCount, FALSE, NoneV, lk, <<>>)
    ELSE DHTRet(l.closer_contacts, l.further_contacts, "none", TRUE, l.val, lk,
                <<[to |-> SortedByDistance(
                              SelectSeq(l.contacts,
                                        LAMBDA c : c.id # l.found_by),
                              key)[1].id,
                   key |-> key, val |-> l.val, is_cached |-> TRUE,
                   exp_time |-> Constants_EXPIRATION_TIME_SEC]>>)

\* The lookup as DHT.find_value records it.
LookedUp(l) ==
    [called |-> TRUE, err |-> l.err, found |-> l.found,
     contacts |-> l.contacts, val |-> l.val, found_by |-> l.found_by]

DHTLookedUp(l, key) == DHTAfterLookup(l, LookedUp(l), key)

\* DHT.find_value(key).  ext is the QueryReturn a router other than Router
\* answers with.
\*   our_val = _originator_storage.try_get_value(key)[1]
\*   if our_val: found
\*   else: lookup = router.lookup(key, router.rpc_find_value) ...
DHTFindValue(impl, d, router, bl, me, closer, further, key, ext) ==
    IF TryGetValue1(impl, d, key).err # "none"
    THEN DHTRet(closer, further, TryGetValue1(impl, d, key).err, FALSE, NoneV,
                NotLookedUp, <<>>)
    ELSE IF TryGetValue1(impl, d, key).value # NoneV
    THEN DHTRet(closer, further, "none", TRUE,
                TryGetValue1(impl, d, key).value, NotLookedUp, <<>>)
    ELSE IF router = "Router"
    THEN DHTLookedUp(RouterLookup(bl, me, closer, further, key,
                                  "rpc_find_value"), key)
    ELSE DHTLookedUp([closer_contacts |-> closer,
                      further_contacts |-> further, err |-> "none",
                      found |-> ext.found, contacts |-> ext.contacts,
                      val |-> ext.val, found_by |-> ext.found_by], key)

NoDht ==
    [op |-> "init", key |-> -1, val |-> NoneV, pre_store |-> VirtualStorage,
     err |-> "none", found |-> FALSE, ret_val |-> NoneV,
     lookup |-> NotLookedUp, stores |-> <<>>]

\* DHT.__init__ with storage_factory = VirtualStorage and router = Router().
DHTIdle ==
    /\ originator_storage = VirtualStorage
    /\ dlast = NoDht
    /\ dht_args = [storage_factory |-> "VirtualStorage", router |-> "Router"]

\* ------------------------------------------------------------------------
\* A network of DHTs over VirtualProtocol: the joining DHT (our_id, bucket
\* list buckets) and the peers NetPeerIds, each a Node with its own bucket
\* list.  A peer's Contact is one object, held by every bucket list that
\* knows the peer: touch() on it shows in all of them.  net is the function
\* from node id to bucket list.

NetPeerIds == {1, 2, 5, 6}

Ids(cs) == [i \in 1..Len(cs) |-> cs[i].id]

\* Contact.touch() at time ts on the Contact object of peer id, seen
\* through one contact list, one bucket list, and all of them.
RECURSIVE TouchContacts(_, _, _)
TouchContacts(cs, id, ts) ==
    IF cs = <<>> THEN <<>>
    ELSE <<IF Head(cs).id = id THEN Contact(id, ts) ELSE Head(cs)>>
         \o TouchContacts(Tail(cs), id, ts)

RECURSIVE TouchBuckets(_, _, _)
TouchBuckets(bl, id, ts) ==
    IF bl = <<>> THEN <<>>
    ELSE <<[low |-> Head(bl).low, high |-> Head(bl).high,
            contacts |-> TouchContacts(Head(bl).contacts, id, ts)]>>
         \o TouchBuckets(Tail(bl), id, ts)

TouchAll(net, id, ts) == [n \in DOMAIN net |-> TouchBuckets(net[n], id, ts)]

\* bucket_list.add_contact(contact of peer id) on node n, r being what the
\* call did to n's bucket list.
NetAdded(net, n, id, r) ==
    [net |-> IF r.branch = "self" THEN net
             ELSE TouchAll([net EXCEPT ![n] = r.buckets], id, r.now - 1),
     now |-> r.now, err |-> r.err]

NetAdd(net, n, id, t) ==
    NetAdded(net, n, id, AddContactRec(net[n], n, id, t, 0))

\* contact.protocol.find_node(sender, key) on the VirtualProtocol of peer
\* q: Node.find_node of q's node (r), the first component of its result.
PeerAnswered(net, q, sender, r) ==
    [net |-> IF r.added = <<>> THEN net
             ELSE TouchAll([net EXCEPT ![q] = r.buckets], sender, r.now - 1),
     now |-> r.now, err |-> r.err, contacts |-> Ids(r.contacts)]

PeerFindNode(net, q, sender, key, t) ==
    PeerAnswered(net, q, sender,
                 NodeFindNode(net[q], VirtualStorage, NoCache, q, t, key,
                              sender))

\* DHT.bootstrap resolves other_buckets to KBucket objects before it
\* refreshes them, and _refresh_bucket iterates bucket.contacts, the list
\* object itself.  A tracker follows one such object: pos is its position
\* in the bucket list while it is still there (appends to it show up in
\* the iteration), 0 once a split has replaced it by two new KBuckets, from
\* when on its contact list stays as it was (frozen).
Tracker(bl, p) ==
    [pos |-> p, low |-> bl[p].low, high |-> bl[p].high, frozen |-> <<>>]

Moved(tr, p, kbucket) ==
    IF tr.pos = p THEN [tr EXCEPT !.pos = 0, !.frozen = kbucket.contacts]
    ELSE IF tr.pos > p THEN [tr EXCEPT !.pos = tr.pos + 1]
    ELSE tr

\* What add_contact(id) on bl does to the tracked objects: the split
\* branch replaces buckets[index] and inserts behind it.
RECURSIVE TrackAdd(_, _, _, _)
TrackSplit(bl, me, id, trk, index, p, s) ==
    IF s.err # "none" THEN trk
    ELSE TrackAdd(InstallSplit(bl, index, s.k1, s.k2), me, id,
                  [j \in 1..Len(trk) |-> Moved(trk[j], p, bl[p])])

TrackAt(bl, me, id, trk, index, p) ==
    IF ~Contains(bl[p], id) /\ IsFull(bl[p]) /\ CanSplit(bl[p], me)
    THEN TrackSplit(bl, me, id, trk, index, p, Split(bl[p]))
    ELSE trk

TrackAdd(bl, me, id, trk) ==
    IF IsOurNode(me, id) THEN trk
    ELSE TrackAt(bl, me, id, trk, GetKBucketIndex(bl, id),
                 Pos(bl, GetKBucketIndex(bl, id)))

NetRet(net, t, err, trk, queried) ==
    [net |-> net, now |-> t, err |-> err, trk |-> trk, queried |-> queried]

\* for contact in contacts: self.node.bucket_list.add_contact(contact);
\* r is what the add_contact of the first contact did, trk1 the tracked
\* objects after it.
RECURSIVE AddTracked(_, _, _, _, _)
AddTrackedNext(r, trk1, me, ids) ==
    IF r.err # "none" THEN NetRet(r.net, r.now, r.err, trk1, <<>>)
    ELSE AddTracked(r.net, me, Tail(ids), r.now, trk1)

\* Variant of the loop that stops after the first contact.
AddTrackedOnlyFirst(net, me, ids, t, trk) ==
    IF ids = <<>> THEN NetRet(net, t, "none", trk, <<>>)
    ELSE NetRet(NetAdd(net, me, Head(ids), t).net,
                NetAdd(net, me, Head(ids), t).now,
                NetAdd(net, me, Head(ids), t).err,
                TrackAdd(net[me], me, Head(ids), trk), <<>>)

AddTracked(net, me, ids, t, trk) ==
    IF ids = <<>> THEN NetRet(net, t, "none", trk, <<>>)
    ELSE AddTrackedNext(NetAdd(net, me, Head(ids), t),
                        TrackAdd(net[me], me, Head(ids), trk), me, ids)

\* The loop of DHT._refresh_bucket over the contact list of tracked bucket
\* j, from its i-th contact on: find_node(our contact, random_id) to the
\* contact (f is what that did), then add_contact of every contact it
\* answered (a is what that did).  queried lists the contacts asked.
RECURSIVE RefreshLoop(_, _, _, _, _, _, _, _)
RefreshAdded(me, j, i, random_id, queried, a) ==
    IF a.err # "none" THEN NetRet(a.net, a.now, a.err, a.trk, queried)
    ELSE RefreshLoop(a.net, me, a.now, a.trk, j, i + 1, random_id, queried)

RefreshAsked(me, trk, j, i, random_id, queried, f) ==
    IF f.err # "none" THEN NetRet(f.net, f.now, f.err, trk, queried)
    ELSE RefreshAdded(me, j, i, random_id, queried,
                      AddTracked(f.net, me, f.contacts, f.now, trk))

RefreshFrom(net, me, t, trk, j, i, random_id, queried, cs) ==
    IF i > Len(cs) THEN NetRet(net, t, "none", trk, queried)
    ELSE RefreshAsked(me, trk, j, i, random_id, Append(queried, cs[i].id),
                      PeerFindNode(net, cs[i].id, me, random_id, t))

RefreshLoop(net, me, t, trk, j, i, random_id, queried) ==
    RefreshFrom(net, me, t, trk, j, i, random_id, queried,
                IF trk[j].pos > 0 THEN net[me][trk[j].pos].contacts
                ELSE trk[j].frozen)

\* DHT._refresh_bucket(bucket): bucket.touch() reads the clock;
\* random_id_within_bucket_range builds ID(low + randint(0, high - low)),
\* and ID() raises ValueError for 2**B, which is in reach when high is
\* 2**B.  offset is the number randint drew.
RefreshBucket(net, me, t, trk, j, offset, queried) ==
    IF ~(MAX_ID > trk[j].low + offset /\ trk[j].low + offset >= MIN_ID)
    THEN NetRet(net, t + 1, "ValueError", trk, queried)
    ELSE RefreshLoop(net, me, t + 1, trk, j, 1, trk[j].low + offset, queried)

\* for other_bucket in other_buckets: self._refresh_bucket(other_bucket)
RECURSIVE RefreshAll(_, _, _, _, _, _, _)
RefreshAllNext(r, me, j, rnd) ==
    IF r.err # "none" THEN r
    ELSE RefreshAll(r.net, me, r.now, r.trk, j + 1, rnd, r.queried)

RefreshAll(net, me, t, trk, j, rnd, queried) ==
    IF j > Len(trk) THEN NetRet(net, t, "none", trk, queried)
    ELSE RefreshAllNext(RefreshBucket(net, me, t, trk, j, rnd[j], queried),
                        me, j, rnd)

\* DHT.bootstrap(known_peer) up to the point other_buckets is resolved:
\* add_contact(known_peer) (a); find_node(our contact, our id) to the known
\* peer (f); add_contact of every contact it answered (c); other_buckets
\* holds every bucket but the one get_kbucket(known_peer.id) returns.
JoinRet(net, t, err, returned, trk) ==
    [net |-> net, now |-> t, err |-> err, returned |-> returned, trk |-> trk]

OtherBuckets(bl, known_peers_bucket) ==
    SelectSeq([p \in 1..Len(bl) |-> p], LAMBDA p : p # known_peers_bucket)

Trackers(bl, other) == [k \in 1..Len(other) |-> Tracker(bl, other[k])]

BootstrapAdded(me, known_peer, returned, c) ==
    IF c.err # "none" THEN JoinRet(c.net, c.now, c.err, returned, <<>>)
    ELSE JoinRet(c.net, c.now, "none", returned,
                 Trackers(c.net[me],
                          OtherBuckets(c.net[me],
                                       Pos(c.net[me],
                                           GetKBucketIndex(c.net[me],
                                                           known_peer)))))

BootstrapAsked(me, known_peer, f) ==
    IF f.err # "none" THEN JoinRet(f.net, f.now, f.err, <<>>, <<>>)
    ELSE BootstrapAdded(me, known_peer, f.contacts,
                        AddTracked(f.net, me, f.contacts, f.now, <<>>))

BootstrapKnown(me, known_peer, a) ==
    IF a.err # "none" THEN JoinRet(a.net, a.now, a.err, <<>>, <<>>)
    ELSE BootstrapAsked(me, known_peer,
                        PeerFindNode(a.net, known_peer, me, me, a.now))

BootstrapJoin(net, me, known_peer, t) ==
    BootstrapKnown(me, known_peer, NetAdd(net, me, known_peer, t))

NoBoot ==
    [op |-> "init", known_peer |-> -1, err |-> "none", pre_peer |-> <<>>,
     returned |-> <<>>, refreshed |-> <<>>, random |-> <<>>, queried |-> <<>>]

\* Every peer constructed, none knowing anybody.
NetIdle ==
    /\ peers = [p \in NetPeerIds |-> <<KBucket(0, MAX_ID)>>]
    /\ boot = NoBoot

\* ------------------------------------------------------------------------
\* State machine of one BucketList.

NoCall ==
    [op |-> "init", id |-> -1, prev_id |-> -1, pre |-> <<>>, err |-> "none",
     branch |-> "none", splits |-> 0, stale |-> -1, ping_error |-> FALSE,
     ping_sent |-> FALSE, dht_call |-> "none"]

\* BucketList.__init__: one KBucket() with the default range [0, 2**B], for
\* the node empty_node() builds (our id is ID(0)); the free-standing KBucket
\* is a default KBucket().
Init ==
    /\ our_id = IDmin
    /\ buckets = <<KBucket(0, MAX_ID)>>
    /\ now = 0
    /\ ops = 0
    /\ last = NoCall
    /\ kb = KBucket(0, MAX_ID)
    /\ kids = <<>>
    /\ NodeIdle /\ RouterIdle /\ DHTIdle /\ NetIdle /\ IdIdle /\ ConcIdle

\* One call BucketList.add_contact(Contact(id)).  ping_error is what the
\* protocol of the least-recently-seen contact would answer to a PING
\* (VirtualProtocol.responds = False gives an RPCError); it is an input of
\* the not-splittable branch only.
AddContact(id) ==
    /\ ops < MaxOps
    /\ LET r == AddContactRec(buckets, our_id, id, now, 0)
       IN  /\ buckets' = r.buckets
           /\ now' = r.now
           /\ \E ping_error \in (IF r.branch = "evict" THEN BOOLEAN ELSE {FALSE}) :
                  last' = [op |-> "add_contact", id |-> id, prev_id |-> last.id,
                           pre |-> buckets, err |-> r.err, branch |-> r.branch,
                           splits |-> r.splits, stale |-> r.stale,
                           ping_error |-> ping_error, ping_sent |-> r.ping_sent,
                           dht_call |-> r.dht_call]
    /\ ops' = ops + 1
    /\ UNCHANGED <<idVars, concVars, our_id, kb, kids, nodeVars, routerVars, dhtVars, netVars>>

Next == \E id \in PeerIds : AddContact(id)

Spec == Init /\ [][Next]_vars

\* ------------------------------------------------------------------------
\* State machine of one BucketList whose bucket capacity Constants.K is a
\* parameter of the run (1..K), to follow the split-then-retry recursion of
\* add_contact for the small capacities.

\* Frames the interpreter allows the recursion of add_contact
\* (sys.getrecursionlimit(), 1000 by default) scaled to the model: two more
\* than the B splits the ID space accounts for.
RecursionLimit == 5

\* KBucket.is_full with Constants.K = cap.
IsFullCap(cap, b) == Len(b.contacts) >= cap

\* KBucket.add_contact with Constants.K = cap.
KBucketAddContactCap(cap, b, c) ==
    IF IsFullCap(cap, b)
    THEN [b |-> b, err |-> "TooManyContactsError"]
    ELSE IF ~IsInRange(b, c.id)
         THEN [b |-> b, err |-> "OutOfRangeError"]
         ELSE [b |-> [b EXCEPT !.contacts = Append(@, c)], err |-> "none"]

\* The loop of KBucket.split with Constants.K = cap.
RECURSIVE SplitLoopCap(_, _, _, _, _, _)
SplitLoopCap(cap, cs, i, midpoint, k1, k2) ==
    IF i > Len(cs) THEN [k1 |-> k1, k2 |-> k2, err |-> "none"]
    ELSE IF cs[i].id < midpoint
         THEN LET r == KBucketAddContactCap(cap, k1, cs[i])
              IN  IF r.err # "none" THEN [k1 |-> k1, k2 |-> k2, err |-> r.err]
                  ELSE SplitLoopCap(cap, cs, i + 1, midpoint, r.b, k2)
         ELSE LET r == KBucketAddContactCap(cap, k2, cs[i])
              IN  IF r.err # "none" THEN [k1 |-> k1, k2 |-> k2, err |-> r.err]
                  ELSE SplitLoopCap(cap, cs, i + 1, midpoint, k1, r.b)

\* KBucket.split with Constants.K = cap.
SplitCap(cap, b) ==
    IF b.contacts = <<>>
    THEN [k1 |-> b, k2 |-> b, err |-> "StatisticsError"]
    ELSE SplitLoopCap(cap, b.contacts, 1, Midpoint(b),
                      KBucket(b.low, Midpoint(b)), KBucket(Midpoint(b), b.high))

AddRet(bl, t, err, branch, splits, stale) ==
    [buckets |-> bl, now |-> t, err |-> err, branch |-> branch,
     splits |-> splits, stale |-> stale, ping_sent |-> FALSE,
     dht_call |-> "none"]

\* BucketList.add_contact with Constants.K = cap.  The retry after a split
\* is one more frame of add_contact: when the interpreter has no frame left
\* the call raises RecursionError, the splits made so far staying in
\* self.buckets.
RECURSIVE AddContactCap(_, _, _, _, _, _)
AddContactCap(cap, bl, me, id, t, splits) ==
    IF IsOurNode(me, id)
    THEN AddRet(bl, t, "OurNodeCannotBeAContactError", "self", splits, -1)
    ELSE IF Contains(GetKBucket(bl, id), id)
    THEN AddRet([bl EXCEPT ![Pos(bl, GetKBucketIndex(bl, id))] =
                     ReplaceContact(GetKBucket(bl, id), id, t + 1)],
                t + 2, "none", "replace", splits, -1)
    ELSE IF ~IsFullCap(cap, GetKBucket(bl, id))
    THEN AddRet([bl EXCEPT ![Pos(bl, GetKBucketIndex(bl, id))] =
                     KBucketAddContactCap(cap, GetKBucket(bl, id),
                                          Contact(id, t)).b],
                t + 1,
                KBucketAddContactCap(cap, GetKBucket(bl, id),
                                     Contact(id, t)).err,
                "append", splits, -1)
    ELSE IF ~CanSplit(GetKBucket(bl, id), me)
    THEN AddRet(bl, t + 1, "NameError", "evict", splits,
                LastSeenContact(GetKBucket(bl, id)).id)
    ELSE IF SplitCap(cap, GetKBucket(bl, id)).err # "none"
    THEN AddRet(bl, t + 1, SplitCap(cap, GetKBucket(bl, id)).err, "split",
                splits, -1)
    ELSE IF splits + 1 >= RecursionLimit
    THEN AddRet(InstallSplit(bl, GetKBucketIndex(bl, id),
                             SplitCap(cap, GetKBucket(bl, id)).k1,
                             SplitCap(cap, GetKBucket(bl, id)).k2),
                t + 1, "RecursionError", "split", splits + 1, -1)
    ELSE AddContactCap(cap,
                       InstallSplit(bl, GetKBucketIndex(bl, id),
                                    SplitCap(cap, GetKBucket(bl, id)).k1,
                                    SplitCap(cap, GetKBucket(bl, id)).k2),
                       me, id, t + 1, splits + 1)

\* Constants.K is fixed before the BucketList is built.
InitCap ==
    /\ our_id = IDmin
    /\ buckets = <<KBucket(0, MAX_ID)>>
    /\ now = 0
    /\ ops = 0
    /\ last = NoCall
    /\ kb = KBucket(0, MAX_ID)
    /\ kids = <<>>
    /\ NodeIdle /\ RouterIdle /\ DHTIdle /\ NetIdle
    /\ capacity \in 1..K
    /\ xlast = NoXor
    /\ ConcIdle

AddStep(id, r) ==
    /\ buckets' = r.buckets
    /\ now' = r.now
    /\ last' = [op |-> "add_contact", id |-> id, prev_id |-> last.id,
                pre |-> buckets, err |-> r.err, branch |-> r.branch,
                splits |-> r.splits, stale |-> r.stale,
                ping_error |-> FALSE, ping_sent |-> r.ping_sent,
                dht_call |-> r.dht_call]

\* One call BucketList.add_contact(Contact(id)) under Constants.K = capacity.
AddContactWithCapacity(id) ==
    /\ ops < MaxOps
    /\ AddStep(id, AddContactCap(capacity, buckets, our_id, id, now, 0))
    /\ ops' = ops + 1
    /\ UNCHANGED <<idVars, concVars, our_id, kb, kids, nodeVars, routerVars, dhtVars, netVars>>

NextCap == \E id \in PeerIds : AddContactWithCapacity(id)

SpecCap == InitCap /\ [][NextCap]_vars

\* ------------------------------------------------------------------------
\* State machine of one free-standing KBucket: constructed over a range,
\* filled through KBucket.add_contact, split by KBucket.split.

InitKB ==
    /\ our_id = IDmin
    /\ buckets = <<KBucket(0, MAX_ID)>>
    /\ now = 0
    /\ ops = 0
    /\ last = NoCall
    /\ kb \in {KBucket(0, MAX_ID), KBucket(0, IDmid), KBucket(IDmid, MAX_ID)}
    /\ kids = <<>>
    /\ NodeIdle /\ RouterIdle /\ DHTIdle /\ NetIdle /\ IdIdle /\ ConcIdle

\* kb.add_contact(Contact(id)): the contact is constructed at the current
\* clock reading; a raise leaves the bucket as it was.
KBAdd(id) ==
    /\ LET r == KBucketAddContact(kb, Contact(id, now))
       IN  /\ r.err = "none"
           /\ kb' = r.b
    /\ now' = now + 1
    /\ UNCHANGED <<idVars, concVars, buckets, our_id, ops, last, kids, nodeVars, routerVars,
                   dhtVars, netVars>>

\* kb.split() on a non-empty bucket: kids records the bucket that was split
\* and the two buckets returned.  self is not changed by split.
KBSplit ==
    /\ kb.contacts # <<>>
    /\ LET s == Split(kb)
       IN  /\ s.err = "none"
           /\ kids' = <<kb, s.k1, s.k2>>
    /\ UNCHANGED <<idVars, concVars, buckets, our_id, now, ops, last, kb, nodeVars, routerVars,
                   dhtVars, netVars>>

NextKB == (\E id \in PeerIds : KBAdd(id)) \/ KBSplit

SpecKB == InitKB /\ [][NextKB]_vars

\* ------------------------------------------------------------------------
\* State machine of one Node serving inbound RPCs.  The node is
\* empty_node()-like: id ID(0), a VirtualStorage, and either no cache
\* storage (the default of Node.__init__, what DHT.__init__ builds) or a
\* VirtualStorage as cache.  Its bucket list has seen the add_contact calls
\* of one of the runs SeedRuns before the first RPC arrives.

MaxNodeOps == 2
SeedRuns == {<<>>, <<1, 2>>, <<1, 2, 5>>, <<1, 2, 5, 2>>}
Senders == {0, 1, 6}
Keys == {2, 5}
StoreKeys == {5}
Values == {"v"}

SeedList(run) == AddAll(<<KBucket(0, MAX_ID)>>, IDmin, run, 0)

InitNode ==
    /\ our_id = IDmin
    /\ \E run \in SeedRuns :
          /\ buckets = SeedList(run).buckets
          /\ now = SeedList(run).now
    /\ ops = 0
    /\ last = NoCall
    /\ kb = KBucket(0, MAX_ID)
    /\ kids = <<>>
    /\ storage = VirtualStorage
    /\ cache_storage \in {NoCache, Cache(VirtualStorage)}
    /\ nlast = NoRpc
    /\ RouterIdle /\ DHTIdle /\ NetIdle /\ IdIdle /\ ConcIdle

\* The state after one handler has run with result r.
NodeStep(op, key, sender, val, is_cached, r) ==
    /\ ops < MaxNodeOps
    /\ buckets' = r.buckets
    /\ storage' = r.storage
    /\ cache_storage' = r.cache_storage
    /\ now' = r.now
    /\ nlast' = [op |-> op, key |-> key, sender |-> sender, val |-> val,
                 is_cached |-> is_cached, pre |-> buckets,
                 pre_storage |-> storage, pre_cache |-> cache_storage,
                 err |-> r.err, contacts |-> r.contacts,
                 contacts_none |-> r.contacts_none, value |-> r.value,
                 added |-> r.added]
    /\ ops' = ops + 1
    /\ UNCHANGED <<idVars, concVars, our_id, last, kb, kids, routerVars, dhtVars, netVars>>

RpcPing(sender) ==
    NodeStep("ping", -1, sender, NoneV, FALSE,
             NodePing(buckets, storage, cache_storage, our_id, now, sender))

RpcStore(key, sender, val, is_cached) ==
    NodeStep("store", key, sender, val, is_cached,
             NodeStore(buckets, storage, cache_storage, our_id, now, key,
                       sender, val, is_cached))

RpcFindNode(key, sender) ==
    NodeStep("find_node", key, sender, NoneV, FALSE,
             NodeFindNode(buckets, storage, cache_storage, our_id, now, key,
                          sender))

RpcFindValue(key, sender) ==
    NodeStep("find_value", key, sender, NoneV, FALSE,
             NodeFindValue(buckets, storage, cache_storage, our_id, now, key,
                           sender))

NextNode ==
    \/ \E sender \in Senders : RpcPing(sender)
    \/ \E key \in StoreKeys, sender \in Senders, val \in Values,
          is_cached \in BOOLEAN : RpcStore(key, sender, val, is_cached)
    \/ \E key \in Keys, sender \in Senders : RpcFindNode(key, sender)
    \/ \E key \in Keys, sender \in Senders : RpcFindValue(key, sender)

SpecNode == InitNode /\ [][NextNode]_vars

\* ------------------------------------------------------------------------
\* State machine of one Router over the bucket list of its node.

MaxLookups == 3
LookupKeys == {0, 2, 5}

InitRouter ==
    /\ our_id = IDmin
    /\ \E run \in SeedRuns :
          /\ buckets = SeedList(run).buckets
          /\ now = SeedList(run).now
    /\ ops = 0
    /\ last = NoCall
    /\ kb = KBucket(0, MAX_ID)
    /\ kids = <<>>
    /\ NodeIdle /\ RouterIdle /\ DHTIdle /\ NetIdle /\ IdIdle /\ ConcIdle

\* One call router.lookup(key, rpc_call).
Lookup(key, rpc_call) ==
    /\ ops < MaxLookups
    /\ LET r == RouterLookup(buckets, our_id, closer_contacts,
                             further_contacts, key, rpc_call)
       IN  /\ closer_contacts' = r.closer_contacts
           /\ further_contacts' = r.further_contacts
           /\ rlast' = [op |-> "lookup", key |-> key, rpc_call |-> rpc_call,
                        pre |-> buckets, pre_closer |-> closer_contacts,
                        pre_further |-> further_contacts,
                        nodes_to_query |-> r.nodes_to_query, err |-> r.err,
                        returned |-> r.returned, found |-> r.found,
                        contacts |-> r.contacts, val |-> r.val,
                        found_by |-> r.found_by, rpcs |-> r.rpcs]
    /\ ops' = ops + 1
    /\ UNCHANGED <<idVars, concVars, buckets, our_id, now, last, kb, kids, nodeVars, dhtVars,
                   netVars>>

NextRouter ==
    \E key \in LookupKeys, rpc_call \in {"rpc_find_nodes", "rpc_find_value"} :
        Lookup(key, rpc_call)

SpecRouter == InitRouter /\ [][NextRouter]_vars

\* ------------------------------------------------------------------------
\* State machine of one DHT: store and find_value of the originator.

MaxDhtOps == 2

\* What the lookup of a router other than Router may answer.
ExtContacts == {<<>>, <<1>>, <<1, 2>>, <<2, 1, 5>>, <<2, 6>>}
ExtLookups ==
    {[found |-> FALSE, contacts |-> <<>>, val |-> NoneV, found_by |-> -1]}
    \cup {[found |-> TRUE,
           contacts |-> [i \in 1..Len(cs) |-> Contact(cs[i], 0)],
           val |-> "w", found_by |-> f] : cs \in ExtContacts, f \in {1}}

InitDHT ==
    /\ our_id = IDmin
    /\ \E run \in SeedRuns :
          /\ buckets = SeedList(run).buckets
          /\ now = SeedList(run).now
    /\ ops = 0
    /\ last = NoCall
    /\ kb = KBucket(0, MAX_ID)
    /\ kids = <<>>
    /\ NodeIdle /\ RouterIdle /\ NetIdle /\ IdIdle /\ ConcIdle
    /\ originator_storage = VirtualStorage
    /\ dlast = NoDht
    /\ dht_args \in [storage_factory : {"VirtualStorage", "IStorage"},
                     router : {"Router", "other"}]

\* DHT.store(key, val): touch_bucket_with_key and store_on_closer_contacts
\* are pass; the value goes to the originator storage.
DHTStore(key, val) ==
    /\ ops < MaxDhtOps
    /\ originator_storage' = StorageSet(originator_storage, key, val)
    /\ dlast' = [op |-> "store", key |-> key, val |-> val,
                 pre_store |-> originator_storage, err |-> "none",
                 found |-> FALSE, ret_val |-> NoneV, lookup |-> NotLookedUp,
                 stores |-> <<>>]
    /\ ops' = ops + 1
    /\ UNCHANGED <<idVars, concVars, buckets, our_id, now, last, kb, kids, nodeVars, routerVars,
                   dht_args, netVars>>

\* DHT.find_value(key).  The answer of a router other than Router is an
\* input of the calls that reach the lookup with such a router.
DHTFind(key) ==
    /\ ops < MaxDhtOps
    /\ \E ext \in (IF dht_args.router = "other"
                      /\ TryGetValue1(dht_args.storage_factory,
                                      originator_storage, key)
                         = [err |-> "none", value |-> NoneV]
                   THEN ExtLookups
                   ELSE {[found |-> FALSE, contacts |-> <<>>, val |-> NoneV,
                          found_by |-> -1]}) :
          LET r == DHTFindValue(dht_args.storage_factory, originator_storage,
                                dht_args.router, buckets, our_id,
                                closer_contacts, further_contacts, key, ext)
          IN  /\ closer_contacts' = r.closer_contacts
              /\ further_contacts' = r.further_contacts
              /\ dlast' = [op |-> "find_value", key |-> key, val |-> NoneV,
                           pre_store |-> originator_storage, err |-> r.err,
                           found |-> r.found, ret_val |-> r.val,
                           lookup |-> r.lookup, stores |-> r.stores]
    /\ ops' = ops + 1
    /\ UNCHANGED <<idVars, concVars, buckets, our_id, now, last, kb, kids, nodeVars, rlast,
                   originator_storage, dht_args, netVars>>

NextDHT ==
    \/ \E key \in Keys, val \in Values : DHTStore(key, val)
    \/ \E key \in Keys : DHTFind(key)

SpecDHT == InitDHT /\ [][NextDHT]_vars

\* ------------------------------------------------------------------------
\* State machine of a network: peers learn of each other (any RPC a peer
\* serves ends in bucket_list.add_contact(sender)), then the DHT with id
\* ID(0) and an empty bucket list joins through DHT.bootstrap(known_peer).

MaxLearn == 2

\* What the peers have learnt before the first step: nothing, or peer 1
\* of peers 5 and 6 and peer 5 of peer 2 (pairs <<p, q>>: p adds q).
NetSeedRuns == {<<>>, << <<1, 5>>, <<1, 6>>, <<5, 2>> >>}

RECURSIVE NetLearnAll(_, _, _)
NetLearnAll(net, run, t) ==
    IF run = <<>> THEN [net |-> net, now |-> t]
    ELSE NetLearnAll(NetAdd(net, Head(run)[1], Head(run)[2], t).net,
                     Tail(run),
                     NetAdd(net, Head(run)[1], Head(run)[2], t).now)

NetFresh == [n \in NetPeerIds \cup {IDmin} |-> <<KBucket(0, MAX_ID)>>]

InitNet ==
    /\ our_id = IDmin
    /\ buckets = <<KBucket(0, MAX_ID)>>
    /\ \E run \in NetSeedRuns :
          /\ peers = [p \in NetPeerIds |-> NetLearnAll(NetFresh, run, 0).net[p]]
          /\ now = NetLearnAll(NetFresh, run, 0).now
    /\ ops = 0
    /\ last = NoCall
    /\ kb = KBucket(0, MAX_ID)
    /\ kids = <<>>
    /\ NodeIdle /\ RouterIdle /\ DHTIdle /\ IdIdle /\ ConcIdle
    /\ boot = NoBoot

\* The bucket lists of all nodes as one function.
Net == [n \in NetPeerIds \cup {our_id} |->
           IF n = our_id THEN buckets ELSE peers[n]]

\* The state after a call that left the network as r.net at clock r.now.
NetStep(r) ==
    /\ buckets' = r.net[our_id]
    /\ peers' = [n \in NetPeerIds |-> r.net[n]]
    /\ now' = r.now

\* Peer p adds the contact of peer q.
Learn(p, q) ==
    /\ boot.op = "init"
    /\ ops < MaxLearn
    /\ NetStep(NetAdd(Net, p, q, now))
    /\ ops' = ops + 1
    /\ UNCHANGED <<idVars, concVars, our_id, last, kb, kids, nodeVars, routerVars, dhtVars, boot>>

\* The refreshes behind a join j, with the numbers rnd randint draws.
BootstrapRefresh(j, rnd) ==
    IF j.err # "none"
    THEN NetRet(j.net, j.now, j.err, j.trk, <<>>)
    ELSE RefreshAll(j.net, our_id, j.now, j.trk, 1, rnd, <<>>)

BootstrapDone(known_peer, j, rnd, r) ==
    /\ NetStep(r)
    /\ boot' = [op |-> "bootstrap", known_peer |-> known_peer, err |-> r.err,
                pre_peer |-> peers[known_peer], returned |-> j.returned,
                refreshed |-> j.trk, random |-> rnd, queried |-> r.queried]

BootstrapFrom(known_peer, j) ==
    \E rnd \in [1..Len(j.trk) -> 0..MAX_ID] :
        /\ \A k \in 1..Len(j.trk) : rnd[k] <= j.trk[k].high - j.trk[k].low
        /\ BootstrapDone(known_peer, j, rnd, BootstrapRefresh(j, rnd))

\* DHT.bootstrap(known_peer) on the joining DHT, once.
Bootstrap(known_peer) ==
    /\ boot.op = "init"
    /\ BootstrapFrom(known_peer, BootstrapJoin(Net, our_id, known_peer, now))
    /\ UNCHANGED <<idVars, concVars, our_id, ops, last, kb, kids, nodeVars, routerVars, dhtVars>>

NextNet ==
    \/ \E p \in NetPeerIds : \E q \in NetPeerIds \ {p} : Learn(p, q)
    \/ \E known_peer \in NetPeerIds : Bootstrap(known_peer)

SpecNet == InitNet /\ [][NextNet]_vars

\* ------------------------------------------------------------------------
\* State machine of DHT._refresh_bucket: the nodes of the network, the DHT
\* with id ID(0) among them, learn of each other, then the DHT refreshes
\* one bucket of its bucket list.

RefreshDone(p, offset, r) ==
    /\ NetStep(r)
    /\ boot' = [op |-> "refresh", known_peer |-> -1, err |-> r.err,
                pre_peer |-> <<>>, returned |-> <<>>,
                refreshed |-> <<Tracker(buckets, p)>>, random |-> <<offset>>,
                queried |-> r.queried, pre |-> buckets, bucket |-> p]

\* DHT._refresh_bucket(self.node.bucket_list.buckets[p - 1]) on the DHT,
\* once; offset is the number randint(0, high - low) draws.
Refresh(p, offset) ==
    /\ boot.op = "init"
    /\ offset <= buckets[p].high - buckets[p].low
    /\ RefreshDone(p, offset,
                   RefreshBucket(Net, our_id, now, <<Tracker(buckets, p)>>,
                                 1, offset, <<>>))
    /\ UNCHANGED <<idVars, concVars, our_id, ops, last, kb, kids, nodeVars, routerVars, dhtVars>>

NextRefresh ==
    \/ \E p \in NetPeerIds \cup {our_id} : \E q \in NetPeerIds \ {p} :
           Learn(p, q)
    \/ \E p \in 1..Len(buckets), offset \in 0..MAX_ID : Refresh(p, offset)

SpecRefresh == InitNet /\ [][NextRefresh]_vars

\* ------------------------------------------------------------------------
\* State machine of Router.get_closer_nodes: the Router of the DHT with id
\* ID(0) asks peers of the network for one key, between calls peers may
\* learn of each other.

MaxAsk == 3

\* The Contact a bucket list holds for an id (the first, in list order).
ContactOf(bl, id) ==
    Contacts(bl)[CHOOSE i \in 1..Len(Contacts(bl)) :
                    /\ Contacts(bl)[i].id = id
                    /\ \A j \in 1..(i - 1) : Contacts(bl)[j].id # id]

\* for p in peers_nodes: if p.id ^ key < nearest_node_distance and p.id not
\* in [i.id for i in closer_contacts]: closer_contacts.append(p)
RECURSIVE AppendCloser(_, _, _, _)
AppendCloser(list, ps, key, nearest) ==
    IF ps = <<>> THEN list
    ELSE AppendCloser(IF /\ Xor(Head(ps).id, key) < nearest
                         /\ \A i \in 1..Len(list) : list[i].id # Head(ps).id
                      THEN Append(list, Head(ps)) ELSE list,
                      Tail(ps), key, nearest)

\* The same loop for further_contacts, with >= nearest_node_distance.
RECURSIVE AppendFurther(_, _, _, _)
AppendFurther(list, ps, key, nearest) ==
    IF ps = <<>> THEN list
    ELSE AppendFurther(IF /\ Xor(Head(ps).id, key) >= nearest
                          /\ \A i \in 1..Len(list) : list[i].id # Head(ps).id
                       THEN Append(list, Head(ps)) ELSE list,
                       Tail(ps), key, nearest)

\* peers_nodes: the answered contacts whose id is not in the list [our id,
\* the queried node's id, closer_contacts, further_contacts].  The last two
\* entries are lists, which no id value equals, so only the two ids filter.
PeersNodes(contacts, me, q) ==
    SelectSeq(contacts, LAMBDA c : c.id # me /\ c.id # q)

CloserRet(net, t, err, closer, further, contacts, rpcs, has_val) ==
    [net |-> net, now |-> t, err |-> err, closer_contacts |-> closer,
     further_contacts |-> further, contacts |-> contacts, rpcs |-> rpcs,
     has_val |-> has_val]

\* The part of get_closer_nodes behind rpc_call, f being what the find_node
\* sent by rpc_find_nodes did and cs the contacts it answered.
CloserAnswered(me, closer, further, key, q, f, cs) ==
    IF f.err # "none"
    THEN CloserRet(f.net, f.now, f.err, closer, further, <<>>, <<q>>, FALSE)
    ELSE CloserRet(f.net, f.now, "none",
                   AppendCloser(closer, PeersNodes(cs, me, q), key,
                                Xor(q, key)),
                   AppendFurther(further, PeersNodes(cs, me, q), key,
                                 Xor(q, key)),
                   cs, <<q>>, FALSE)

CloserAsked(me, closer, further, key, q, f) ==
    CloserAnswered(me, closer, further, key, q, f,
                   [i \in 1..Len(f.contacts) |->
                       ContactOf(f.net[q], f.contacts[i])])

\* Router.get_closer_nodes(key, node_to_query, rpc_call, closer_contacts,
\* further_contacts).  rpc_find_nodes sends find_node(our contact, key) to
\* the node and returns (contacts, None, None); rpc_find_value is pass, and
\* unpacking its None raises TypeError before anything is sent.
GetCloserNodes(net, me, t, closer, further, key, q, rpc_call) ==
    IF rpc_call = "rpc_find_value"
    THEN CloserRet(net, t, "TypeError", closer, further, <<>>, <<>>, FALSE)
    ELSE CloserAsked(me, closer, further, key, q,
                     PeerFindNode(net, q, me, key, t))

CloserStep(key, q, rpc_call, r) ==
    /\ NetStep(r)
    /\ closer_contacts' = r.closer_contacts
    /\ further_contacts' = r.further_contacts
    /\ rlast' = [op |-> "get_closer_nodes", key |-> key,
                 rpc_call |-> rpc_call, pre |-> buckets,
                 pre_closer |-> closer_contacts,
                 pre_further |-> further_contacts,
                 nodes_to_query |-> <<q>>, err |-> r.err,
                 returned |-> r.err = "none", found |-> r.has_val,
                 contacts |-> r.contacts, val |-> NoneV, found_by |-> -1,
                 rpcs |-> r.rpcs]

\* One call of get_closer_nodes; all calls of a run are for the same key.
AskCloser(key, q, rpc_call) ==
    /\ ops < MaxAsk
    /\ rlast.op = "init" \/ rlast.key = key
    /\ CloserStep(key, q, rpc_call,
                  GetCloserNodes(Net, our_id, now, closer_contacts,
                                 further_contacts, key, q, rpc_call))
    /\ ops' = ops + 1
    /\ UNCHANGED <<idVars, concVars, our_id, last, kb, kids, nodeVars, dhtVars, boot>>

NextCloser ==
    \/ \E p \in NetPeerIds : \E q \in NetPeerIds \ {p} : Learn(p, q)
    \/ \E key \in Keys, q \in NetPeerIds,
          rpc_call \in {"rpc_find_nodes", "rpc_find_value"} :
              AskCloser(key, q, rpc_call)

SpecCloser == InitNet /\ [][NextCloser]_vars

\* ------------------------------------------------------------------------
\* State machine of concurrent BucketList.add_contact calls: two handler
\* threads of one Node each make one call on the same BucketList.  Every
\* "with self.lock" of the class is commented out, so a thread can be
\* rescheduled between any two statements; one action is one statement (or
\* a run of statements) of the thread named.  A thread's kbucket is a
\* reference: kb_pos is the position of the object in self.buckets while
\* it is there, 0 once another thread's split has replaced it, from when
\* on the thread works on the object it still holds (kb_obj).

\* What the bucket list holds before the threads start (add_contact of the
\* ids in order, by one thread).
ConcSeedRuns == {<<>>, <<1>>, <<1, 2>>, <<5, 6>>, <<1, 2, 5>>}

InitConc ==
    /\ our_id = IDmin
    /\ \E run \in ConcSeedRuns :
          /\ buckets = AddAll(<<KBucket(0, MAX_ID)>>, IDmin, run, 0).buckets
          /\ now = AddAll(<<KBucket(0, MAX_ID)>>, IDmin, run, 0).now
          /\ conc = [seed |-> AddAll(<<KBucket(0, MAX_ID)>>, IDmin, run,
                                     0).buckets,
                     half_seen |-> FALSE]
    /\ frames = [th \in Handlers |-> NoFrame]
    /\ ops = 0
    /\ last = NoCall
    /\ kb = KBucket(0, MAX_ID)
    /\ kids = <<>>
    /\ NodeIdle /\ RouterIdle /\ DHTIdle /\ NetIdle /\ IdIdle

\* The KBucket object a frame's kbucket refers to.
Kb(f) == IF f.kb_pos > 0 THEN buckets[f.kb_pos] ELSE f.kb_obj

\* Another thread stands between self.buckets[index] = k1 and
\* self.buckets.insert(index + 1, k2).
HalfInstalled(th) == \E o \in Handlers \ {th} : frames[o].pc = "install2"

\* The call returns, or raises err.
Finish(f, err) == [f EXCEPT !.pc = "done", !.err = err]

\* A write to the object the frame's kbucket refers to.
WriteKb(th, b, f) ==
    IF frames[th].kb_pos > 0
    THEN /\ buckets' = [buckets EXCEPT ![frames[th].kb_pos] = b]
         /\ frames' = [frames EXCEPT ![th] = f]
    ELSE /\ buckets' = buckets
         /\ frames' = [frames EXCEPT ![th] = [f EXCEPT !.kb_obj = b]]

ConcRest ==
    UNCHANGED <<idVars, our_id, ops, last, kb, kids, nodeVars, routerVars,
                dhtVars, netVars>>

\* add_contact(contact) is entered: the our_id test, contact.touch().
ThreadCall(th, id) ==
    /\ frames[th].pc = "idle"
    /\ IF IsOurNode(our_id, id)
       THEN /\ frames' = [frames EXCEPT ![th] =
                   Finish([@ EXCEPT !.id = id], "OurNodeCannotBeAContactError")]
            /\ now' = now
       ELSE /\ frames' = [frames EXCEPT ![th] =
                   [@ EXCEPT !.pc = "get", !.id = id, !.t = now]]
            /\ now' = now + 1
    /\ UNCHANGED <<buckets, conc>>
    /\ ConcRest

\* kbucket = self.get_kbucket(contact.id)
ThreadGet(th) ==
    /\ frames[th].pc = "get"
    /\ frames' = [frames EXCEPT ![th] =
           [@ EXCEPT !.pc = "branch",
                     !.kb_pos = Pos(buckets,
                                    GetKBucketIndex(buckets, frames[th].id))]]
    /\ conc' = [conc EXCEPT !.half_seen = @ \/ HalfInstalled(th)]
    /\ UNCHANGED <<buckets, now>>
    /\ ConcRest

\* if kbucket.contains(..) / elif kbucket.is_full() / can_split / else;
\* the not-splittable branch raises NameError (our_contact).
ThreadBranch(th) ==
    /\ frames[th].pc = "branch"
    /\ frames' = [frames EXCEPT ![th] =
           IF Contains(Kb(@), @.id) THEN [@ EXCEPT !.pc = "replace"]
           ELSE IF ~IsFull(Kb(@)) THEN [@ EXCEPT !.pc = "kb_add"]
           ELSE IF CanSplit(Kb(@), our_id) THEN [@ EXCEPT !.pc = "split"]
           ELSE Finish(@, "NameError")]
    /\ UNCHANGED <<buckets, now, conc>>
    /\ ConcRest

\* kbucket.replace_contact(contact)
ThreadReplace(th) ==
    /\ frames[th].pc = "replace"
    /\ WriteKb(th, ReplaceContact(Kb(frames[th]), frames[th].id, now),
               Finish(frames[th], "none"))
    /\ now' = now + 1
    /\ UNCHANGED conc
    /\ ConcRest

\* k1, k2 = kbucket.split()
ThreadSplit(th) ==
    /\ frames[th].pc = "split"
    /\ frames' = [frames EXCEPT ![th] =
           IF Split(Kb(@)).err # "none" THEN Finish(@, Split(Kb(@)).err)
           ELSE [@ EXCEPT !.pc = "index", !.k1 = Split(Kb(frames[th])).k1,
                          !.k2 = Split(Kb(frames[th])).k2]]
    /\ UNCHANGED <<buckets, now, conc>>
    /\ ConcRest

\* index = self._get_kbucket_index(contact.id)
ThreadIndex(th) ==
    /\ frames[th].pc = "index"
    /\ frames' = [frames EXCEPT ![th] =
           [@ EXCEPT !.pc = "install1",
                     !.index = GetKBucketIndex(buckets, frames[th].id)]]
    /\ conc' = [conc EXCEPT !.half_seen = @ \/ HalfInstalled(th)]
    /\ UNCHANGED <<buckets, now>>
    /\ ConcRest

\* self.buckets[index] = k1: the object that was there leaves the list.
ThreadInstallK1(th) ==
    /\ frames[th].pc = "install1"
    /\ buckets' = [buckets EXCEPT ![Pos(buckets, frames[th].index)] =
                       frames[th].k1]
    /\ frames' = [o \in Handlers |->
           IF o = th THEN [frames[o] EXCEPT !.pc = "install2"]
           ELSE IF frames[o].kb_pos = Pos(buckets, frames[th].index)
                THEN [frames[o] EXCEPT
                         !.kb_pos = 0,
                         !.kb_obj = buckets[Pos(buckets, frames[th].index)]]
                ELSE frames[o]]
    /\ UNCHANGED <<now, conc>>
    /\ ConcRest

\* The 0-based position list.insert(index + 1, k2) inserts at.
InsertAt(bl, index) == IF index + 1 > Len(bl) THEN Len(bl) ELSE index + 1

\* self.buckets.insert(index + 1, k2)
ThreadInstallK2(th) ==
    /\ frames[th].pc = "install2"
    /\ buckets' = SubSeq(buckets, 1, InsertAt(buckets, frames[th].index))
                   \o <<frames[th].k2>>
                   \o SubSeq(buckets, InsertAt(buckets, frames[th].index) + 1,
                             Len(buckets))
    /\ frames' = [o \in Handlers |->
           IF o = th
           THEN [frames[o] EXCEPT !.pc = "retry", !.splits = @ + 1]
           ELSE IF frames[o].kb_pos > InsertAt(buckets, frames[th].index)
                THEN [frames[o] EXCEPT !.kb_pos = @ + 1]
                ELSE frames[o]]
    /\ UNCHANGED <<now, conc>>
    /\ ConcRest

\* self.add_contact(contact), the retry: one more frame, the our_id test,
\* contact.touch().
ThreadRetry(th) ==
    /\ frames[th].pc = "retry"
    /\ IF frames[th].splits >= RecursionLimit
       THEN /\ frames' = [frames EXCEPT ![th] = Finish(@, "RecursionError")]
            /\ now' = now
       ELSE /\ frames' = [frames EXCEPT ![th] =
                   [@ EXCEPT !.pc = "get", !.t = now]]
            /\ now' = now + 1
    /\ UNCHANGED <<buckets, conc>>
    /\ ConcRest

\* KBucket.add_contact up to its else: the is_full and is_in_range tests.
ThreadKbAdd(th) ==
    /\ frames[th].pc = "kb_add"
    /\ frames' = [frames EXCEPT ![th] =
           IF IsFull(Kb(@)) THEN Finish(@, "TooManyContactsError")
           ELSE IF ~IsInRange(Kb(@), @.id) THEN Finish(@, "OutOfRangeError")
           ELSE [@ EXCEPT !.pc = "append"]]
    /\ UNCHANGED <<buckets, now, conc>>
    /\ ConcRest

\* self.contacts.append(contact)
ThreadAppend(th) ==
    /\ frames[th].pc = "append"
    /\ WriteKb(th, [Kb(frames[th]) EXCEPT
                       !.contacts = Append(@, Contact(frames[th].id,
                                                      frames[th].t))],
               Finish(frames[th], "none"))
    /\ UNCHANGED <<now, conc>>
    /\ ConcRest

NextConc ==
    \E th \in Handlers :
        \/ \E id \in PeerIds : ThreadCall(th, id)
        \/ ThreadGet(th)
        \/ ThreadBranch(th)
        \/ ThreadReplace(th)
        \/ ThreadSplit(th)
        \/ ThreadIndex(th)
        \/ ThreadInstallK1(th)
        \/ ThreadInstallK2(th)
        \/ ThreadRetry(th)
        \/ ThreadKbAdd(th)
        \/ ThreadAppend(th)

SpecConc == InitConc /\ [][NextConc]_vars

\* ------------------------------------------------------------------------
\* State machine of ID.__xor__: IDs a, b, c of the ID space are drawn, then
\* a ^ b, b ^ a, a ^ a, b ^ c and a ^ c are computed.

InitXor ==
    /\ our_id = IDmin
    /\ buckets = <<KBucket(0, MAX_ID)>>
    /\ now = 0
    /\ ops = 0
    /\ last = NoCall
    /\ kb = KBucket(0, MAX_ID)
    /\ kids = <<>>
    /\ NodeIdle /\ RouterIdle /\ DHTIdle /\ NetIdle
    /\ capacity = K
    /\ ConcIdle
    /\ \E a \in IDs, b \in IDs, c \in IDs :
          xlast = [NoXor EXCEPT !.a = a, !.b = b, !.c = c]

XorCall ==
    /\ xlast.op = "init"
    /\ xlast' = [xlast EXCEPT !.op = "xor",
                              !.ab = Xor(xlast.a, xlast.b),
                              !.ba = Xor(xlast.b, xlast.a),
                              !.aa = Xor(xlast.a, xlast.a),
                              !.bc = Xor(xlast.b, xlast.c),
                              !.ac = Xor(xlast.a, xlast.c)]
    /\ UNCHANGED <<capacity, concVars, buckets, our_id, now, ops, last, kb, kids,
                   nodeVars, routerVars, dhtVars, netVars>>

NextXor == XorCall

SpecXor == InitXor /\ [][NextXor]_vars



\* ------------------------------------------------------------------------
\* Properties.

IdSet(bl) == {Contacts(bl)[i].id : i \in 1..Len(Contacts(bl))}
ContactSet(bl) == {Contacts(bl)[i] : i \in 1..Len(Contacts(bl))}
CountId(bl, id) == Cardinality({i \in 1..Len(Contacts(bl)) : Contacts(bl)[i].id = id})
Ranges(bl) == [i \in 1..Len(bl) |-> <<bl[i].low, bl[i].high>>]
Called == last.op = "add_contact"

\* C1: the bucket ranges are pairwise disjoint: no ID is in range of two
\* different buckets.
C1_RangesDisjoint ==
    \A id \in IDs :
        Cardinality({i \in 1..Len(buckets) : IsInRange(buckets[i], id)}) <= 1

\* C2: contact IDs are globally unique in the bucket list: no ID appears in
\* two buckets or twice in one bucket.
C2_IdsGloballyUnique ==
    \A i, j \in 1..Len(Contacts(buckets)) :
        i # j => Contacts(buckets)[i].id # Contacts(buckets)[j].id

\* C3: every bucket holds at most K contacts and every contact of a bucket
\* has low <= id <= high.
C3_BucketBounds ==
    \A i \in 1..Len(buckets) :
        /\ Len(buckets[i].contacts) <= K
        /\ \A j \in 1..Len(buckets[i].contacts) :
               /\ buckets[i].low <= buckets[i].contacts[j].id
               /\ buckets[i].contacts[j].id <= buckets[i].high

C3_FullBucketAfterSplit ==
    /\ Len(buckets) >= 2
    /\ \E i \in 1..Len(buckets) : Len(buckets[i].contacts) = K

\* C4: the bucket ranges cover the ID space without gaps: the first bucket
\* starts at 0, the last one reaches the top, each upper boundary is the next
\* lower boundary, and every ID is found by _get_kbucket_index.
C4_RangesCover ==
    /\ buckets[1].low = 0
    /\ buckets[Len(buckets)].high = MAX_ID
    /\ \A i \in 1..(Len(buckets) - 1) : buckets[i].high = buckets[i + 1].low
    /\ \A id \in IDs :
           /\ \E i \in 1..Len(buckets) : IsInRange(buckets[i], id)
           /\ GetKBucketIndex(buckets, id) # -1

C4_ThreeBuckets == Len(buckets) >= 3

\* C5 as stated: split() of every non-empty KBucket returns two children
\* that each hold at least one contact, and the children's contacts are
\* exactly the parent's, none lost or duplicated.
SplitPartitions ==
    /\ Len(kids[2].contacts) + Len(kids[3].contacts) = Len(kids[1].contacts)
    /\ {kids[2].contacts[i] : i \in 1..Len(kids[2].contacts)}
         \cup {kids[3].contacts[i] : i \in 1..Len(kids[3].contacts)}
       = {kids[1].contacts[i] : i \in 1..Len(kids[1].contacts)}

C5_SplitBothNonEmpty ==
    kids # <<>> =>
        /\ kids[2].contacts # <<>>
        /\ kids[3].contacts # <<>>
        /\ SplitPartitions

DistinctIds(b) ==
    \A i, j \in 1..Len(b.contacts) : i # j => b.contacts[i].id # b.contacts[j].id

\* C5 amended: split() of a KBucket that holds at least two contacts with
\* pairwise distinct IDs returns two children that each hold at least one
\* contact; for every non-empty KBucket the children's contacts are exactly
\* the parent's, none lost or duplicated.
C5_SplitOfDistinctBothNonEmpty ==
    kids # <<>> =>
        /\ SplitPartitions
        /\ (Len(kids[1].contacts) >= 2 /\ DistinctIds(kids[1])) =>
               (kids[2].contacts # <<>> /\ kids[3].contacts # <<>>)

C5_SplitOfTwoDistinct ==
    /\ kids # <<>>
    /\ Len(kids[1].contacts) >= 2
    /\ DistinctIds(kids[1])
    /\ kids[2].contacts # <<>>

\* C6: a second add_contact(c) right after add_contact(c), c.id # our_id,
\* leaves the set of contact IDs and the bucket ranges unchanged, keeps
\* exactly one entry with c.id, and changes nothing but that entry's
\* last_seen, which advances.
C6_SecondAddIdempotent ==
    (Called /\ last.prev_id = last.id /\ last.id # our_id) =>
        /\ IdSet(buckets) = IdSet(last.pre)
        /\ Ranges(buckets) = Ranges(last.pre)
        /\ CountId(buckets, last.id) = 1
        /\ Len(Contacts(buckets)) = Len(Contacts(last.pre))
        /\ \A i \in 1..Len(Contacts(buckets)) :
               IF Contacts(buckets)[i].id = last.id
               THEN Contacts(buckets)[i].last_seen > Contacts(last.pre)[i].last_seen
               ELSE Contacts(buckets)[i] = Contacts(last.pre)[i]

\* C7: add_contact(c) with c.id = our_id fails with
\* OurNodeCannotBeAContactError and leaves the bucket list unchanged; our own
\* ID is never in the bucket list.
C7_SelfRejected ==
    /\ (Called /\ last.id = our_id) =>
           (last.err = "OurNodeCannotBeAContactError" /\ buckets = last.pre)
    /\ our_id \notin IdSet(buckets)

C7_SelfAddedToNonEmptyList ==
    /\ Called
    /\ last.id = our_id
    /\ Contacts(buckets) # <<>>

\* The case of C8: a new ID (not our own) whose bucket is full and covers
\* our_id.
C8_Case ==
    /\ Called
    /\ last.id # our_id
    /\ last.id \notin IdSet(last.pre)
    /\ IsFull(GetKBucket(last.pre, last.id))
    /\ IsInRange(GetKBucket(last.pre, last.id), our_id)

\* C8: add_contact(c) with a new ID that falls in a full bucket covering
\* our_id splits the bucket in place (at least one bucket more), stores c,
\* and keeps every contact that was in the list in the flat enumeration.
C8_SplitStoresAndKeepsAll ==
    C8_Case =>
        /\ last.err = "none"
        /\ Len(buckets) >= Len(last.pre) + 1
        /\ last.id \in IdSet(buckets)
        /\ ContactSet(last.pre) \subseteq ContactSet(buckets)
        /\ Len(Contacts(buckets)) = Len(Contacts(last.pre)) + 1

C8_SplitHappened ==
    /\ C8_Case
    /\ last.splits >= 1
    /\ Len(last.pre) >= 2

\* C9: in a full, not splittable bucket, when the PING to the
\* least-recently-seen contact succeeds, c is handed to the DHT's pending
\* queue and the bucket's contacts are unchanged.
C9_PendingOnPingSuccess ==
    (Called /\ last.branch = "evict" /\ ~last.ping_error) =>
        /\ last.err = "none"
        /\ last.dht_call = "add_to_pending"
        /\ buckets = last.pre

\* C10: in a full, not splittable bucket the contact with the smallest
\* last_seen is PINGed, and when the PING returns an error the DHT
\* delay-evicts: the stale contact leaves the bucket and c is enqueued.
C10_EvictOnPingError ==
    (Called /\ last.branch = "evict") =>
        /\ last.ping_sent
        /\ \A c \in ContactSet(<<GetKBucket(last.pre, last.id)>>) :
               c.id = last.stale \/ c.last_seen > LastSeenContact(GetKBucket(last.pre, last.id)).last_seen
        /\ last.ping_error =>
               (last.dht_call = "delay_eviction" /\ last.stale \notin IdSet(buckets))

\* ------------------------------------------------------------------------
\* Properties of Router.lookup (SpecRouter).

Looked == rlast.op = "lookup"

\* C11: for every bucket list, key and target RPC, Router.lookup returns a
\* contact list of at most K entries, with no two contacts of the same ID,
\* without our own ID, sorted ascending by id XOR key.
C11_LookupResultWellFormed ==
    Looked =>
        /\ rlast.returned
        /\ Len(rlast.contacts) <= K
        /\ \A i, j \in 1..Len(rlast.contacts) :
               i # j => rlast.contacts[i].id # rlast.contacts[j].id
        /\ \A i \in 1..Len(rlast.contacts) : rlast.contacts[i].id # our_id
        /\ \A i \in 1..(Len(rlast.contacts) - 1) :
               Xor(rlast.contacts[i].id, rlast.key)
                   <= Xor(rlast.contacts[i + 1].id, rlast.key)

\* C12: Router.lookup on a bucket list without contacts completes normally
\* and returns found = false with an empty contact list, and sends no RPC.
C12_EmptyLookupCompletes ==
    (Looked /\ Contacts(rlast.pre) = <<>>) =>
        /\ rlast.err = "none"
        /\ rlast.returned
        /\ ~rlast.found
        /\ rlast.contacts = <<>>
        /\ rlast.rpcs = <<>>

\* ------------------------------------------------------------------------
\* Properties of the Node RPC handlers (SpecNode).

Served == nlast.op # "init"

\* The calls that returned what get_close_contacts(key, exclude = sender)
\* computed on the bucket list as it is after the call.
C13_Case == Served /\ nlast.err = "none" /\ ~nlast.contacts_none

\* The contacts get_close_contacts chooses from: all but the excluded ID.
C13_Candidates ==
    SelectSeq(Contacts(buckets), LAMBDA c : c.id # nlast.sender)

C13_Expected ==
    IF Len(C13_Candidates) < K THEN Len(C13_Candidates) ELSE K

C13_At(s, d) ==
    Cardinality({i \in 1..Len(s) : Xor(s[i].id, nlast.key) = d})

C13_Below(s, d) ==
    Cardinality({i \in 1..Len(s) : Xor(s[i].id, nlast.key) < d})

C13_Share(d) ==
    LET left == C13_Expected - C13_Below(C13_Candidates, d)
    IN  IF left <= 0 THEN 0
        ELSE IF C13_At(C13_Candidates, d) < left
             THEN C13_At(C13_Candidates, d) ELSE left

\* C13: get_close_contacts(key, exclude) returns exactly the min(K, n)
\* contacts with the smallest id XOR key among the n contacts whose ID
\* differs from exclude, in ascending XOR order; the result never holds
\* the excluded ID and never more than K entries.  IDs 1, 2, 4, 8, 16 with
\* key 5 are ordered 4, 1, 2, 8, 16.
C13_CloseContacts ==
    /\ Ids(SortedByDistance(<<Contact(1, 0), Contact(2, 0), Contact(4, 0),
                              Contact(8, 0), Contact(16, 0)>>, 5))
           = <<4, 1, 2, 8, 16>>
    /\ C13_Case =>
        /\ Len(nlast.contacts) = C13_Expected
        /\ Len(nlast.contacts) <= K
        /\ \A i \in 1..Len(nlast.contacts) :
               /\ nlast.contacts[i].id # nlast.sender
               /\ \E j \in 1..Len(C13_Candidates) :
                      nlast.contacts[i] = C13_Candidates[j]
        /\ \A i \in 1..(Len(nlast.contacts) - 1) :
               Xor(nlast.contacts[i].id, nlast.key)
                   <= Xor(nlast.contacts[i + 1].id, nlast.key)
        /\ \A d \in IDs : C13_At(nlast.contacts, d) = C13_Share(d)

\* More than K candidates, the excluded ID among the contacts, and a result
\* that is not the first K contacts in bucket order.
C13_Chosen ==
    /\ C13_Case
    /\ Len(C13_Candidates) > K
    /\ Ids(nlast.contacts) # Ids(Take(C13_Candidates, K))
    /\ nlast.contacts # <<>>

\* C14: Node.find_value(key, sender) with sender # self returns exactly one
\* of (contacts, value): (none, the stored value) when the key is in the
\* primary storage or, failing that, in the cache storage; otherwise (at
\* most K closest contacts without the sender, none).  It never raises for
\* a stored key.
C14_FindValueAnswers ==
    (nlast.op = "find_value" /\ nlast.sender # our_id) =>
        /\ nlast.err = "none"
        /\ IF StorageContains(nlast.pre_storage, nlast.key)
           THEN /\ nlast.contacts_none
                /\ nlast.value = nlast.pre_storage[nlast.key]
           ELSE IF ~nlast.pre_cache.is_none
                   /\ StorageContains(nlast.pre_cache.store, nlast.key)
           THEN /\ nlast.contacts_none
                /\ nlast.value = nlast.pre_cache.store[nlast.key]
           ELSE /\ ~nlast.contacts_none
                /\ nlast.value = NoneV
                /\ Len(nlast.contacts) <= K
                /\ \A i \in 1..Len(nlast.contacts) :
                       nlast.contacts[i].id # nlast.sender

\* C15: ping, store, find_node and find_value called with sender.id equal
\* to the node's own ID are rejected with SenderIsSelf / SendingQueryToSelf
\* and leave the bucket list, the storage and the cache storage unchanged.
C15_SelfSenderRejected ==
    (Served /\ nlast.sender = our_id) =>
        /\ nlast.err \in {"SenderIsSelfError", "SendingQueryToSelfError"}
        /\ buckets = nlast.pre
        /\ storage = nlast.pre_storage
        /\ cache_storage = nlast.pre_cache

\* C16: after a successfully serviced ping, store, find_node or find_value
\* from a sender whose ID is not ours, the sender has been passed to
\* bucket_list.add_contact, so its ID is in the bucket list (or went to
\* the eviction path).
C16_SenderAdded ==
    (Served /\ nlast.err = "none" /\ nlast.sender # our_id) =>
        /\ nlast.added = <<nlast.sender>>
        /\ nlast.sender \in IdSet(buckets)

\* C20: a Node services each inbound RPC atomically: whenever store,
\* find_node or find_value ends in an error, the bucket list and both
\* storages are exactly as they were before the call.
C20_ErrorLeavesNodeUnchanged ==
    (nlast.op \in {"store", "find_node", "find_value"} /\ nlast.err # "none") =>
        /\ buckets = nlast.pre
        /\ storage = nlast.pre_storage
        /\ cache_storage = nlast.pre_cache

\* ------------------------------------------------------------------------
\* Properties of DHT.store and DHT.find_value (SpecDHT).

Found == dlast.op = "find_value"

\* C17: on the originating DHT, store(key, v) followed by find_value(key)
\* returns found = true with value v, and find_value sends no RPC: the
\* router lookup is not run.
C17_StoreThenFindLocal ==
    (Found /\ StorageContains(dlast.pre_store, dlast.key)) =>
        /\ dlast.err = "none"
        /\ dlast.found
        /\ dlast.ret_val = dlast.pre_store[dlast.key]
        /\ ~dlast.lookup.called
        /\ dlast.stores = <<>>

\* The contacts of the lookup's answer other than found_by.
C19_Others ==
    SelectSeq(dlast.lookup.contacts, LAMBDA c : c.id # dlast.lookup.found_by)

\* C19: when the lookup of DHT.find_value reports found = true with value
\* v and found_by F, the DHT sends exactly one store(key, v, is_cached =
\* true, ttl = EXPIRATION_TIME_SEC), to the contact of the returned set
\* other than F that minimises id XOR key; it sends none to F, and none at
\* all when there is no other contact.
C19_CachesAtClosestOther ==
    (Found /\ dlast.lookup.called /\ dlast.lookup.err = "none"
           /\ dlast.lookup.found) =>
        /\ dlast.err = "none"
        /\ IF C19_Others = <<>>
           THEN dlast.stores = <<>>
           ELSE /\ Len(dlast.stores) = 1
                /\ dlast.stores[1].to # dlast.lookup.found_by
                /\ \E i \in 1..Len(C19_Others) :
                       C19_Others[i].id = dlast.stores[1].to
                /\ \A i \in 1..Len(C19_Others) :
                       Xor(dlast.stores[1].to, dlast.key)
                           <= Xor(C19_Others[i].id, dlast.key)
                /\ dlast.stores[1].key = dlast.key
                /\ dlast.stores[1].val = dlast.lookup.val
                /\ dlast.stores[1].is_cached
                /\ dlast.stores[1].exp_time = Constants_EXPIRATION_TIME_SEC

\* ------------------------------------------------------------------------
\* Properties of DHT.bootstrap (SpecNet).

\* DHT.bootstrap(known_peer) was called on the joining DHT, whose bucket
\* list was empty, and returned.
C18_Completed == boot.op = "bootstrap" /\ boot.err = "none"

XorCalled == xlast.op = "xor"

\* C23: XOR distance on IDs is a metric: a ^ b = b ^ a, a ^ a = 0, a ^ b = 0
\* only when a = b, a ^ c <= (a ^ b) + (b ^ c), and every result lies in
\* the ID space [0, 2^B).
C23_XorIsMetric ==
    XorCalled =>
        /\ xlast.ab = xlast.ba
        /\ xlast.aa = 0
        /\ xlast.ab = 0 => xlast.a = xlast.b
        /\ xlast.ac <= xlast.ab + xlast.bc
        /\ {xlast.ab, xlast.ba, xlast.aa, xlast.bc, xlast.ac}
               \subseteq MIN_ID .. (MAX_ID - 1)

\* Three different IDs whose distances make the triangle inequality tight,
\* with a ^ b above both a and b.
C23_TightTriangle ==
    /\ XorCalled
    /\ Cardinality({xlast.a, xlast.b, xlast.c}) = 3
    /\ xlast.ac = xlast.ab + xlast.bc
    /\ xlast.ab > xlast.a /\ xlast.ab > xlast.b

\* C22: every Router.lookup terminates by returning: as soon as a value
\* is found, or K result contacts are known, or no uncontacted closer or
\* further contact remains; no contact is queried twice in one lookup.
C22_LookupReturns ==
    Looked =>
        /\ rlast.err = "none"
        /\ rlast.returned
        /\ \A i, j \in 1..Len(rlast.rpcs) :
               i # j => rlast.rpcs[i] # rlast.rpcs[j]

\* all_nodes of the last lookup: get_close_contacts(key, our_id)[0:K] on
\* the bucket list the lookup ran on.
C24_Seeds == Take(GetCloseContacts(rlast.pre, rlast.key, our_id), K)

InSeq(s, x) == \E i \in 1..Len(s) : s[i] = x

\* C24: after the seeding step of Router.lookup every contact returned by
\* get_close_contacts(key, our_id) is in closer_contacts or
\* further_contacts: the first A by whether they are strictly closer to
\* key than our own ID, every remaining one (from index A on, none
\* skipped) in further_contacts.
C24_SeedsPartitioned ==
    Looked =>
        \A i \in 1..Len(C24_Seeds) :
            IF i <= A /\ Xor(C24_Seeds[i].id, rlast.key) < Xor(our_id, rlast.key)
            THEN InSeq(closer_contacts, C24_Seeds[i])
            ELSE InSeq(further_contacts, C24_Seeds[i])

\* C26: lookup state is scoped to one call: at the start of every
\* Router.lookup the closer and further sets are empty, whichever lookups
\* the same Router ran before.
C26_ListsEmptyAtStart ==
    Looked => (rlast.pre_closer = <<>> /\ rlast.pre_further = <<>>)

\* ------------------------------------------------------------------------
\* Properties of Router.get_closer_nodes (SpecCloser).

C25_New(list, pre) == SubSeq(list, Len(pre) + 1, Len(list))

\* C25: closer_contacts and further_contacts are duplicate-free by ID and
\* disjoint from each other: get_closer_nodes never appends a peer whose ID
\* is our own, the queried node's, or already present in either set.
C25_SetsDisjoint ==
    rlast.op = "get_closer_nodes" =>
        /\ \A i, j \in 1..Len(closer_contacts) :
               i # j => closer_contacts[i].id # closer_contacts[j].id
        /\ \A i, j \in 1..Len(further_contacts) :
               i # j => further_contacts[i].id # further_contacts[j].id
        /\ \A i \in 1..Len(closer_contacts), j \in 1..Len(further_contacts) :
               closer_contacts[i].id # further_contacts[j].id
        /\ \A c \in {C25_New(closer_contacts, rlast.pre_closer)[i] :
                        i \in 1..(Len(closer_contacts) - Len(rlast.pre_closer))}
                \cup {C25_New(further_contacts, rlast.pre_further)[i] :
                        i \in 1..(Len(further_contacts) - Len(rlast.pre_further))} :
               /\ c.id # our_id
               /\ c.id # rlast.nodes_to_query[1]
               /\ \A i \in 1..Len(rlast.pre_closer) : rlast.pre_closer[i].id # c.id
               /\ \A i \in 1..Len(rlast.pre_further) : rlast.pre_further[i].id # c.id

\* ------------------------------------------------------------------------
\* Properties of the order inside a KBucket (Spec).

\* C27: after add_contact of a contact c (stored by KBucket.add_contact or
\* by KBucket.replace_contact), c is the last element of its bucket's
\* sequence and the sequence is in ascending order of last_seen.
C27_MostRecentLast ==
    (Called /\ last.err = "none") =>
        LET cs == GetKBucket(buckets, last.id).contacts
        IN  /\ cs # <<>>
            /\ cs[Len(cs)].id = last.id
            /\ \A i, j \in 1..Len(cs) :
                   i < j => cs[i].last_seen <= cs[j].last_seen

\* ------------------------------------------------------------------------
\* Properties of the recursion of BucketList.add_contact (SpecCap).

\* C28: add_contact terminates for every bucket capacity from 1 on: the
\* split-then-retry recursion makes at most B splits and never runs out of
\* frames.
C28_SplitsBounded ==
    Called => /\ last.err # "RecursionError"
              /\ last.splits <= B

\* ------------------------------------------------------------------------
\* Properties of the defensive checks of KBucket.add_contact (Spec).

\* C29: no sequence of BucketList.add_contact calls, the contact moves
\* inside split included, makes KBucket.add_contact raise
\* TooManyContactsError or OutOfRangeError.
C29_DefensiveChecksUnreachable ==
    Called => last.err \notin {"TooManyContactsError", "OutOfRangeError"}

\* A call that went through KBucket.add_contact for the moves of a split of
\* a full bucket and then for the new contact.
C29_StoredAfterSplit ==
    /\ Called
    /\ last.splits >= 1
    /\ last.branch = "append"
    /\ last.err = "none"
    /\ Len(Contacts(buckets)) > K

\* ------------------------------------------------------------------------
\* Properties of DHT._refresh_bucket (SpecRefresh).

Refreshed == boot.op = "refresh"

\* The ids of the contacts the refreshed bucket held when the refresh began.
C30_Snapshot ==
    [i \in 1..Len(boot.pre[boot.bucket].contacts) |->
        boot.pre[boot.bucket].contacts[i].id]

\* C30: _refresh_bucket(b) draws a valid ID inside b's range (it does not
\* fail on the ID), and a refresh that returns has sent find_node exactly
\* once to each contact b held when the refresh began, in order, and to no
\* contact inserted into b during the refresh.
C30_RefreshAsksSnapshot ==
    Refreshed =>
        /\ boot.err # "ValueError"
        /\ boot.err = "none" => boot.queried = C30_Snapshot

\* ------------------------------------------------------------------------
\* Properties of concurrent BucketList.add_contact calls (SpecConc).

\* Ranges and ids of a bucket list, bucket by bucket.
C31_Shape(bl) ==
    [i \in 1..Len(bl) |->
        [low |-> bl[i].low, high |-> bl[i].high,
         ids |-> [j \in 1..Len(bl[i].contacts) |-> bl[i].contacts[j].id]]]

\* The bucket list after add_contact(a) and then add_contact(b), one after
\* the other, on the list the threads started from.
C31_Serial(a, b) ==
    AddContactRec(AddContactRec(conc.seed, our_id, a, 0, 0).buckets,
                  our_id, b, 0, 0).buckets

C31_BothDone == \A th \in Handlers : frames[th].pc = "done"

\* C31: interleaved add_contact calls on one BucketList behave as if
\* serialised by one exclusive lock: no bucket ever holds more than K
\* contacts, no thread reads the list while only one child of a split is
\* installed, and when both calls are over the list is the one that one of
\* the two serial orders of the calls leaves (so no ID is stored twice
\* where the serial orders store it once).
C31_AsIfSerialised ==
    /\ \A i \in 1..Len(buckets) : Len(buckets[i].contacts) <= K
    /\ ~conc.half_seen
    /\ C31_BothDone =>
           \/ C31_Shape(buckets)
                  = C31_Shape(C31_Serial(frames[1].id, frames[2].id))
           \/ C31_Shape(buckets)
                  = C31_Shape(C31_Serial(frames[2].id, frames[1].id))

====
